---- MODULE Spec2Model ----
(***************************************************************************)
(* A model of the property-listing converter (src/main.py): the numeral    *)
(* decomposer number_to_bulgarian_words, the scalar reconstructor inside   *)
(* process_property_item, the tree walk translate_data, the property       *)
(* extractor extract_properties and the grouping part of generate_pdf.     *)
(*                                                                         *)
(* Python values are modelled as records [kind, val]:                      *)
(*   kind "str"  : val is a string                                         *)
(*   kind "int"  : val is an integer                                       *)
(*   kind "none" : None                                                    *)
(*   kind "bool" : val is a boolean                                        *)
(*   kind "list" : val is a sequence of values                             *)
(*   kind "dict" : val is a sequence of <<key, value>> pairs with distinct *)
(*                 keys, in insertion order                                *)
(* Python strings are TLA+ strings, read character by character with       *)
(* SubSeq.  A Python int that may exceed 32 bits is the record [hi, lo]    *)
(* standing for hi * 10^9 + lo.                                            *)
(***************************************************************************)
EXTENDS Integers, Sequences, FiniteSets, TLC

VARIABLES
    number,       \* SpecNum: the argument of number_to_bulgarian_words
    words,        \* SpecNum: its return value
    npc,          \* SpecNum: "call" before the call, "ret" after it
    input_data,      \* main's data: the tree load_data returned
    translator,      \* the behaviour of the translation capability in this run
    translated_data, \* the outcome of translate_data(data)
    extract_result,  \* the outcome of extract_properties(data)
    pdf,             \* the outcome of generate_pdf(translated_data)
    pc,           \* "loaded", "translated", "done", "failed", "extracted"
    svalue,       \* SpecStr: a string value of a dict
    sparts,       \* SpecStr: what extract_numeric_part(svalue) returned
    sresult,      \* SpecStr: the outcome of process_property_item({"k": svalue})
    spc,          \* SpecStr: "call", then "split" or "processed"
    connector,    \* the connector create_connector built
    fetched,      \* SpecDb: the outcome of fetch_and_format_data(connector)
    dpc,          \* SpecDb: "call", then "returned" or "raised"
    args,         \* SpecCli: the flags of the full-process command
    env,          \* SpecCli: what the file system and the steps do in this run
    files,        \* SpecCli: which of the two temporary files exist
    steps,        \* SpecCli: the steps _run_full_process has taken
    cresult,      \* SpecCli: the local result of _run_full_process
    creturned,    \* SpecCli: the code _run_full_process returned
    cpc           \* SpecCli: the position in _run_full_process

nvars == <<number, words, npc>>
tvars == <<input_data, translator, translated_data, extract_result, pdf, pc>>
svars == <<svalue, sparts, sresult, spc>>
dvars == <<connector, fetched, dpc>>
cvars == <<args, env, files, steps, cresult, creturned, cpc>>
vars == <<number, words, npc, input_data, translator, translated_data,
          extract_result, pdf, pc, svalue, sparts, sresult, spc,
          connector, fetched, dpc, args, env, files, steps, cresult,
          creturned, cpc>>

----------------------------------------------------------------------------
(* Python string primitives                                                *)

Char(s, i) == SubSeq(s, i, i)

Digits == {"0", "1", "2", "3", "4", "5", "6", "7", "8", "9"}

\* re's \d on one character
IsDigit(c) == c \in Digits

\* str.isspace on one character
IsSpace(c) == c \in {" ", "\t", "\n"}

UpperCase ==
    ("A" :> "a") @@ ("B" :> "b") @@ ("C" :> "c") @@ ("D" :> "d") @@
    ("E" :> "e") @@ ("F" :> "f") @@ ("G" :> "g") @@ ("H" :> "h") @@
    ("I" :> "i") @@ ("J" :> "j") @@ ("K" :> "k") @@ ("L" :> "l") @@
    ("M" :> "m") @@ ("N" :> "n") @@ ("O" :> "o") @@ ("P" :> "p") @@
    ("Q" :> "q") @@ ("R" :> "r") @@ ("S" :> "s") @@ ("T" :> "t") @@
    ("U" :> "u") @@ ("V" :> "v") @@ ("W" :> "w") @@ ("X" :> "x") @@
    ("Y" :> "y") @@ ("Z" :> "z")

\* str.lower()
RECURSIVE Lower(_)
Lower(s) ==
    IF s = "" THEN ""
    ELSE LET c == Char(s, 1)
         IN  (IF c \in DOMAIN UpperCase THEN UpperCase[c] ELSE c)
             \o Lower(SubSeq(s, 2, Len(s)))

\* str.lstrip(), str.rstrip(), str.strip()
RECURSIVE LStrip(_)
LStrip(s) ==
    IF s # "" /\ IsSpace(Char(s, 1)) THEN LStrip(SubSeq(s, 2, Len(s))) ELSE s

RECURSIVE RStrip(_)
RStrip(s) ==
    IF s # "" /\ IsSpace(Char(s, Len(s))) THEN RStrip(SubSeq(s, 1, Len(s) - 1))
    ELSE s

Strip(s) == RStrip(LStrip(s))

\* str.find(sub): the first index (from 1) where sub occurs in s, 0 if none
Find(s, sub) ==
    LET hits == {i \in 1..(Len(s) - Len(sub) + 1) :
                    SubSeq(s, i, i + Len(sub) - 1) = sub}
    IN  IF hits = {} THEN 0
        ELSE CHOOSE i \in hits : \A j \in hits : i <= j

\* sub in s
Contains(s, sub) == Find(s, sub) # 0

\* s.replace(old, '') for a non-empty old: every occurrence removed
RECURSIVE RemoveAll(_, _)
RemoveAll(s, old) ==
    IF Find(s, old) = 0 THEN s
    ELSE SubSeq(s, 1, Find(s, old) - 1)
         \o RemoveAll(SubSeq(s, Find(s, old) + Len(old), Len(s)), old)

\* s.replace(old, '', 1) for a non-empty old
RemoveFirst(s, old) ==
    LET i == Find(s, old)
    IN  IF i = 0 THEN s
        ELSE SubSeq(s, 1, i - 1) \o SubSeq(s, i + Len(old), Len(s))

\* sep.join(parts)
RECURSIVE Join(_, _)
Join(parts, sep) ==
    IF parts = <<>> THEN ""
    ELSE IF Len(parts) = 1 THEN parts[1]
    ELSE parts[1] \o sep \o Join(Tail(parts), sep)

----------------------------------------------------------------------------
(* Python integers                                                         *)

Billion == 1000000000

PyInt(n) == [hi |-> n \div Billion, lo |-> n % Billion]

DigitValue ==
    ("0" :> 0) @@ ("1" :> 1) @@ ("2" :> 2) @@ ("3" :> 3) @@ ("4" :> 4) @@
    ("5" :> 5) @@ ("6" :> 6) @@ ("7" :> 7) @@ ("8" :> 8) @@ ("9" :> 9)

RECURSIVE SmallInt(_)
SmallInt(ds) ==
    IF ds = "" THEN 0
    ELSE 10 * SmallInt(SubSeq(ds, 1, Len(ds) - 1)) + DigitValue[Char(ds, Len(ds))]

\* int(ds) for a run of decimal digits of at most 18 characters
ParseInt(ds) ==
    IF Len(ds) <= 9 THEN [hi |-> 0, lo |-> SmallInt(ds)]
    ELSE [hi |-> SmallInt(SubSeq(ds, 1, Len(ds) - 9)),
          lo |-> SmallInt(SubSeq(ds, Len(ds) - 8, Len(ds)))]

DigitChar == [d \in 0..9 |-> CHOOSE c \in Digits : DigitValue[c] = d]

\* str(n) for a non-negative int below 2^31
RECURSIVE IntToStr(_)
IntToStr(n) ==
    IF n < 10 THEN DigitChar[n]
    ELSE IntToStr(n \div 10) \o DigitChar[n % 10]

----------------------------------------------------------------------------
(* The numeral decomposer                                                  *)

_bgd ==
    (0 :> "nula") @@ (1 :> "edno") @@ (2 :> "dve") @@ (3 :> "tri") @@
    (4 :> "chetiri") @@ (5 :> "pet") @@ (6 :> "shest") @@ (7 :> "sedem") @@
    (8 :> "osem") @@ (9 :> "devet") @@ (10 :> "deset") @@
    (11 :> "edinadeset") @@ (12 :> "dvanadeset") @@ (13 :> "trinadeset") @@
    (14 :> "chetirinadeset") @@ (15 :> "petnadeset") @@
    (16 :> "shestnadeset") @@ (17 :> "sedemnadeset") @@
    (18 :> "osemnadeset") @@ (19 :> "devetnadeset") @@ (20 :> "dvadeset") @@
    (30 :> "trideset") @@ (40 :> "chetirideset") @@ (50 :> "petdeset") @@
    (60 :> "shestdeset") @@ (70 :> "sedemdeset") @@ (80 :> "osemdeset") @@
    (90 :> "devetdeset")

_hundreds ==
    (1 :> "sto") @@ (2 :> "dvesta") @@ (3 :> "trista") @@
    (4 :> "chetiristotin") @@ (5 :> "petstotin") @@ (6 :> "sheststotin") @@
    (7 :> "sedemstotin") @@ (8 :> "osemstotin") @@ (9 :> "devetstotin")

\* a decomposer whose hundreds test is n > 100 instead of n >= 100
HundredsWordsStrict(n) ==
    IF n > 100
    THEN IF (n \div 100) \in DOMAIN _hundreds
         THEN <<_hundreds[n \div 100]>> ELSE <<>>
    ELSE <<>>

\* lines 180-185: the hundreds digit of a number below 1000
HundredsWords(n) ==
    IF n >= 100
    THEN IF (n \div 100) \in DOMAIN _hundreds
         THEN <<_hundreds[n \div 100]>> ELSE <<>>
    ELSE <<>>

\* a decomposer that joins tens and units without testing units == 0
TensUnitsWordsAlwaysJoined(n) ==
    IF n > 0
    THEN IF n < 20 /\ n \in DOMAIN _bgd
         THEN <<_bgd[n]>>
         ELSE LET tens  == (n \div 10) * 10
                  units == n % 10
              IN  IF tens \in DOMAIN _bgd /\ units \in DOMAIN _bgd
                  THEN <<_bgd[tens] \o " i " \o _bgd[units]>>
                  ELSE <<>>
    ELSE <<>>

\* a decomposer whose table words stop at 9: 10..19 go through the
\* tens-and-units split
TensUnitsWordsNoTeens(n) ==
    IF n > 0
    THEN IF n < 10 /\ n \in DOMAIN _bgd
         THEN <<_bgd[n]>>
         ELSE IF ((n \div 10) * 10) \in DOMAIN _bgd
              THEN IF n % 10 = 0 THEN <<_bgd[(n \div 10) * 10]>>
                   ELSE IF (n % 10) \in DOMAIN _bgd
                        THEN <<_bgd[(n \div 10) * 10] \o " i " \o _bgd[n % 10]>>
                        ELSE <<>>
              ELSE <<>>
    ELSE <<>>

\* lines 187-198: tens and units of a number below 100
TensUnitsWords(n) ==
    IF n > 0
    THEN IF n < 20 /\ n \in DOMAIN _bgd
         THEN <<_bgd[n]>>
         ELSE LET tens  == (n \div 10) * 10
                  units == n % 10
              IN  IF tens \in DOMAIN _bgd
                  THEN IF units = 0 THEN <<_bgd[tens]>>
                       ELSE IF units \in DOMAIN _bgd
                            THEN <<_bgd[tens] \o " i " \o _bgd[units]>>
                            ELSE <<>>
                  ELSE <<>>
    ELSE <<>>

\* a decomposer without the single-unit forms: a group of one is spelled
\* like any other group
RECURSIVE number_to_bulgarian_words_regular(_)
number_to_bulgarian_words_regular(n) ==
    IF n.hi = 0 /\ n.lo = 0 THEN _bgd[0]
    ELSE Join((IF n.hi > 0
               THEN <<number_to_bulgarian_words_regular(PyInt(n.hi))
                        \o " miliarda">>
               ELSE <<>>)
              \o (IF n.lo >= 1000000
                  THEN <<number_to_bulgarian_words_regular(
                             PyInt(n.lo \div 1000000)) \o " miliona">>
                  ELSE <<>>)
              \o (IF n.lo % 1000000 >= 1000
                  THEN <<number_to_bulgarian_words_regular(
                             PyInt((n.lo % 1000000) \div 1000)) \o " hilyadi">>
                  ELSE <<>>)
              \o HundredsWords(n.lo % 1000)
              \o TensUnitsWords(n.lo % 100), " ")

\* number is a Python int [hi, lo]; the result is the returned string
RECURSIVE number_to_bulgarian_words(_)
number_to_bulgarian_words(n) ==
    IF n.hi = 0 /\ n.lo = 0 THEN _bgd[0]
    ELSE
    LET \* Billions (lines 150-158)
        billions == n.hi
        w1 == IF n.hi > 0
              THEN IF billions = 1 THEN <<"edin miliard">>
                   ELSE <<number_to_bulgarian_words(PyInt(billions))
                            \o " miliarda">>
              ELSE <<>>
        n1 == n.lo
        \* Millions (lines 160-168)
        millions == n1 \div 1000000
        w2 == IF n1 >= 1000000
              THEN IF millions = 1 THEN <<"edin milion">>
                   ELSE <<number_to_bulgarian_words(PyInt(millions))
                            \o " miliona">>
              ELSE <<>>
        n2 == n1 % 1000000
        \* Thousands (lines 170-178)
        thousands == n2 \div 1000
        w3 == IF n2 >= 1000
              THEN IF thousands = 1 THEN <<"hilyada">>
                   ELSE <<number_to_bulgarian_words(PyInt(thousands))
                            \o " hilyadi">>
              ELSE <<>>
        n3 == n2 % 1000
        w4 == HundredsWords(n3)
        n4 == n3 % 100
        w5 == TensUnitsWords(n4)
    IN  Join(w1 \o w2 \o w3 \o w4 \o w5, " ")

----------------------------------------------------------------------------
(* Python values and dicts                                                 *)

Str(s)   == [kind |-> "str", val |-> s]
Num(n)   == [kind |-> "int", val |-> n]
None     == [kind |-> "none", val |-> 0]
Bool(b)  == [kind |-> "bool", val |-> b]
List(xs) == [kind |-> "list", val |-> xs]
Dict(es) == [kind |-> "dict", val |-> es]

\* str(value) for a value that is neither a dict nor a list
PyStr(value) ==
    CASE value.kind = "str"  -> value.val
      [] value.kind = "int"  -> IntToStr(value.val)
      [] value.kind = "none" -> "None"
      [] value.kind = "bool" -> IF value.val THEN "True" ELSE "False"

\* bool(value): Python truthiness
Truthy(value) ==
    CASE value.kind = "str"  -> value.val # ""
      [] value.kind = "int"  -> value.val # 0
      [] value.kind = "none" -> FALSE
      [] value.kind = "bool" -> value.val
      [] value.kind = "list" -> value.val # <<>>
      [] value.kind = "dict" -> value.val # <<>>

\* an assignment that leaves the value of an existing key alone
DictSetFirstWins(entries, key, value) ==
    IF \E i \in 1..Len(entries) : entries[i][1] = key
    THEN entries
    ELSE Append(entries, <<key, value>>)

\* result[key] = value on the entries of a dict: an existing key keeps its
\* position and takes the new value, a new key is appended
DictSet(entries, key, value) ==
    IF \E i \in 1..Len(entries) : entries[i][1] = key
    THEN [i \in 1..Len(entries) |->
            IF entries[i][1] = key THEN <<key, value>> ELSE entries[i]]
    ELSE Append(entries, <<key, value>>)

----------------------------------------------------------------------------
(* Results of calls.  A call returns [v, tcalls, ncalls, exc]: the value,   *)
(* the texts it submitted to the translation capability, the integers it    *)
(* passed to number_to_bulgarian_words, both in call order, and whether it  *)
(* ended by raising (v is then meaningless).  Intermediate results are      *)
(* handed on as operator arguments.                                         *)

Ret(v) == [v |-> v, tcalls |-> <<>>, ncalls |-> <<>>, exc |-> FALSE]

\* b evaluated after a: a's exception propagates, otherwise b's outcome
\* with a's calls before b's
After(a, b) ==
    IF a.exc THEN a
    ELSE [v |-> b.v, tcalls |-> a.tcalls \o b.tcalls,
          ncalls |-> a.ncalls \o b.ncalls, exc |-> b.exc]

\* a, then b, giving the list of a's value followed by b's values
Cons(a, b) ==
    IF After(a, b).exc THEN After(a, b)
    ELSE [After(a, b) EXCEPT !.v = <<a.v>> \o b.v]

\* the Python list of the values r collected
AsList(r) == IF r.exc THEN r ELSE [r EXCEPT !.v = List(r.v)]

\* result = {}; for key, value in pairs: result[key] = value
RECURSIVE DictOf(_, _)
DictOf(pairs, result) ==
    IF pairs = <<>> THEN result
    ELSE DictOf(Tail(pairs), DictSet(result, pairs[1][1], pairs[1][2]))

AsDict(r) == IF r.exc THEN r ELSE [r EXCEPT !.v = Dict(DictOf(r.v, <<>>))]

----------------------------------------------------------------------------
(* The translation capability: GoogleTranslator(source='bg', target='en').  *)
(* tr = [dict, failing, down]: translate(text) raises when the service is   *)
(* down or text is in failing, returns dict[text] when text is in the       *)
(* dictionary, and echoes text otherwise.                                   *)

GoogleTranslate(text, tr) ==
    IF tr.down \/ text \in tr.failing
    THEN [v |-> Str(""), tcalls |-> <<text>>, ncalls |-> <<>>, exc |-> TRUE]
    ELSE [v |-> Str(IF text \in DOMAIN tr.dict THEN tr.dict[text] ELSE text),
          tcalls |-> <<text>>, ncalls |-> <<>>, exc |-> FALSE]

\* lines 45-47: except Exception: return text
Caught(text, r) == IF r.exc THEN [r EXCEPT !.v = text, !.exc = FALSE] ELSE r

\* translate_text without its try/except: the translator's exception escapes
translate_text_uncaught(text, tr) ==
    IF ~Truthy(text) \/ text.kind # "str" THEN Ret(text)
    ELSE GoogleTranslate(text.val, tr)

\* translate_text submitting the empty string too
translate_text_empty_submitted(text, tr) ==
    IF text.kind # "str" THEN Ret(text)
    ELSE Caught(text, GoogleTranslate(text.val, tr))

\* text is a Python value
translate_text(text, tr) ==
    IF ~Truthy(text) \/ text.kind # "str" THEN Ret(text)
    ELSE Caught(text, GoogleTranslate(text.val, tr))

\* the end of the maximal digit run of s that starts at i
RECURSIVE RunEnd(_, _)
RunEnd(s, i) ==
    IF i < Len(s) /\ IsDigit(Char(s, i + 1)) THEN RunEnd(s, i + 1) ELSE i

\* the index of the first digit of s from i on, 0 when there is none
RECURSIVE FirstDigit(_, _)
FirstDigit(s, i) ==
    IF i > Len(s) THEN 0
    ELSE IF IsDigit(Char(s, i)) THEN i
    ELSE FirstDigit(s, i + 1)

\* lines 31-35, start being where re.search(r'(\d+)', text) matched
SplitNumeric(text, start) ==
    IF start = 0 THEN [numeric |-> None, rest |-> text]
    ELSE [numeric |-> Str(SubSeq(text.val, start, RunEnd(text.val, start))),
          rest |-> Str(Strip(RemoveFirst(text.val,
                      SubSeq(text.val, start, RunEnd(text.val, start)))))]

\* returns [numeric, rest]: numeric is None or a str, rest the second item
extract_numeric_part(text) ==
    IF ~Truthy(text) \/ text.kind # "str"
    THEN [numeric |-> None, rest |-> text]
    ELSE SplitNumeric(text, FirstDigit(text.val, 1))

\* the fix testing "lev" in translated_text, without .lower()
LevFixCaseSensitive(translated_text) ==
    IF Truthy(translated_text) /\ Contains(translated_text.val, "lev")
    THEN Str("leva") ELSE translated_text

\* lines 65-67: the "lev/leva" fix on the translated remainder
LevFix(translated_text) ==
    IF Truthy(translated_text) /\ Contains(Lower(translated_text.val), "lev")
    THEN Str("leva") ELSE translated_text

\* line 62: number_to_bulgarian_words(n), the call recorded
NumericWord(n) ==
    [v |-> Str(number_to_bulgarian_words(n)), tcalls |-> <<>>,
     ncalls |-> <<n>>, exc |-> FALSE]

\* lines 65-69, t being the outcome of lines 62-63
FString(numeric_word, t) ==
    IF t.exc THEN t
    ELSE [t EXCEPT !.v = Str(numeric_word.v.val \o " " \o PyStr(LevFix(t.v)))]

\* lines 62-69 with the numeral words at hand
Combine(numeric_word, text_part, tr) ==
    FString(numeric_word, After(numeric_word, translate_text(text_part, tr)))

\* lines 61-69: the body of the try block
Reconstruct(numeric_part, text_part, tr) ==
    Combine(NumericWord(ParseInt(numeric_part.val)), text_part, tr)

\* lines 70-72: the bare except around the try block; the calls made before
\* the exception stay made
Except(try, value, tr) ==
    IF try.exc
    THEN After([try EXCEPT !.exc = FALSE], translate_text(value, tr))
    ELSE try

\* the reconstruction entered whether or not a digit run was found
ReconstructAlways(value, parts, tr) ==
    Except(Reconstruct(IF Truthy(parts.numeric) THEN parts.numeric ELSE Str("0"),
                       parts.rest, tr), value, tr)

\* lines 60-74, parts being the pair extract_numeric_part returned
ReconstructOrTranslate(value, parts, tr) ==
    IF Truthy(parts.numeric)
    THEN Except(Reconstruct(parts.numeric, parts.rest, tr), value, tr)
    ELSE translate_text(value, tr)

\* lines 57-74: a str value of a dict
ProcessString(value, tr) ==
    ReconstructOrTranslate(value, extract_numeric_part(value), tr)

\* the key put through the numeral path of the values
NumeralKey(k, parts) ==
    IF Truthy(parts.numeric)
    THEN After(k, FString(NumericWord(ParseInt(parts.numeric.val)),
                          After(NumericWord(ParseInt(parts.numeric.val)),
                                Ret(parts.rest))))
    ELSE k

\* an entry whose translated key is numeral-reconstructed like a value
EntryNumeralKey(translated_key, translated_value) ==
    IF translated_key.exc \/ translated_value.exc
    THEN After(translated_key, translated_value)
    ELSE [After(NumeralKey(translated_key,
                           extract_numeric_part(translated_key.v)),
                translated_value) EXCEPT
            !.v = <<PyStr(NumeralKey(translated_key,
                              extract_numeric_part(translated_key.v)).v),
                    translated_value.v>>]

\* lines 54 and 85: the translated key with the translated value
Entry(translated_key, translated_value) ==
    IF After(translated_key, translated_value).exc
    THEN After(translated_key, translated_value)
    ELSE [After(translated_key, translated_value) EXCEPT
            !.v = <<PyStr(translated_key.v), translated_value.v>>]

RECURSIVE process_property_item(_, _)
RECURSIVE ProcessItems(_, _)
RECURSIVE ProcessEntries(_, _)

\* [process_property_item(item) for item in items]
ProcessItems(items, tr) ==
    IF items = <<>> THEN Ret(<<>>)
    ELSE Cons(process_property_item(Head(items), tr),
              ProcessItems(Tail(items), tr))

\* lines 53-85: the loop over property_item.items(); v is the list of the
\* <<translated_key, translated_value>> assigned to result, in order
ProcessEntries(entries, tr) ==
    IF entries = <<>> THEN Ret(<<>>)
    ELSE Cons(Entry(translate_text(Str(entries[1][1]), tr),
                    CASE entries[1][2].kind = "str" ->
                            ProcessString(entries[1][2], tr)
                      [] entries[1][2].kind = "dict" ->
                            process_property_item(entries[1][2], tr)
                      [] entries[1][2].kind = "list" ->
                            AsList(ProcessItems(entries[1][2].val, tr))
                      [] OTHER -> Ret(Str(PyStr(entries[1][2])))),
              ProcessEntries(Tail(entries), tr))

process_property_item(property_item, tr) ==
    CASE property_item.kind = "dict" ->
            AsDict(ProcessEntries(property_item.val, tr))
      [] property_item.kind = "list" ->
            AsList(ProcessItems(property_item.val, tr))
      [] property_item.kind = "str" -> translate_text(property_item, tr)
      [] OTHER -> Ret(property_item)

\* lines 102-111: the loop over data.items() of a dict root; v is the list
\* of the <<translated_key, value>> assigned to result, in order
RECURSIVE TranslateEntries(_, _)
TranslateEntries(entries, tr) ==
    IF entries = <<>> THEN Ret(<<>>)
    ELSE Cons(Entry(translate_text(Str(entries[1][1]), tr),
                    CASE entries[1][2].kind = "dict" ->
                            process_property_item(entries[1][2], tr)
                      [] entries[1][2].kind = "list" ->
                            AsList(ProcessItems(entries[1][2].val, tr))
                      [] OTHER ->
                            translate_text(Str(PyStr(entries[1][2])), tr)),
              TranslateEntries(Tail(entries), tr))

\* translate_data going through data.items() whatever the root is:
\* AttributeError for a root that is not a dict
translate_data_dict_only(data, tr) ==
    IF ~Truthy(data) THEN Ret(Dict(<<>>))
    ELSE IF data.kind = "dict" THEN AsDict(TranslateEntries(data.val, tr))
    ELSE [Ret(Dict(<<>>)) EXCEPT !.exc = TRUE]

\* translate_data handing a root that is neither a dict nor a list to
\* process_property_item
translate_data_scalar_processed(data, tr) ==
    IF ~Truthy(data) THEN Ret(Dict(<<>>))
    ELSE CASE data.kind = "dict" -> AsDict(TranslateEntries(data.val, tr))
           [] data.kind = "list" -> AsList(ProcessItems(data.val, tr))
           [] OTHER -> process_property_item(data, tr)

\* translate_data without the test of line 96
translate_data_no_falsy_test(data, tr) ==
    CASE data.kind = "dict" -> AsDict(TranslateEntries(data.val, tr))
      [] data.kind = "list" -> AsList(ProcessItems(data.val, tr))
      [] OTHER -> Ret(Dict(<<>>))

translate_data(data, tr) ==
    IF ~Truthy(data) THEN Ret(Dict(<<>>))
    ELSE CASE data.kind = "dict" -> AsDict(TranslateEntries(data.val, tr))
           [] data.kind = "list" -> AsList(ProcessItems(data.val, tr))
           [] OTHER -> Ret(Dict(<<>>))

----------------------------------------------------------------------------
(* The property extractor                                                  *)

Markers == {"district", "type", "area", "price"}

\* lines 213-215: property_like after one more key
OrMarker(translated_key, rest) ==
    IF After(translated_key, rest).exc THEN After(translated_key, rest)
    ELSE [After(translated_key, rest) EXCEPT
            !.v = (translated_key.v.val \in Markers) \/ rest.v]

\* the loop over the keys with translate_text(key) in place of
\* translate_text(key.lower())
RECURSIVE ScanKeysNoLower(_, _)
ScanKeysNoLower(entries, tr) ==
    IF entries = <<>> THEN Ret(FALSE)
    ELSE OrMarker(translate_text(Str(entries[1][1]), tr),
                  ScanKeysNoLower(Tail(entries), tr))

\* lines 212-217: the loop over the keys; v is property_like
RECURSIVE ScanKeys(_, _)
ScanKeys(entries, tr) ==
    IF entries = <<>> THEN Ret(FALSE)
    ELSE OrMarker(translate_text(Str(Lower(entries[1][1])), tr),
                  ScanKeys(Tail(entries), tr))

\* data_structure.values()
Values(entries) == [i \in 1..Len(entries) |-> entries[i][2]]

RECURSIVE extract_properties(_, _, _)
RECURSIVE ExtractEach(_, _, _)

\* the rest of a loop of calls once one call has returned h
ThenEach(h, items, tr) ==
    IF h.exc THEN h ELSE After(h, ExtractEach(items, h.v, tr))

\* for item in items: extract_properties(item, processed_properties)
ExtractEach(items, processed_properties, tr) ==
    IF items = <<>> THEN Ret(processed_properties)
    ELSE ThenEach(extract_properties(Head(items), processed_properties, tr),
                  Tail(items), tr)

\* a classification that skips a listing equal to one already in the list
ClassifiedOnce(data_structure, processed_properties, tr, property_like) ==
    IF property_like.exc THEN property_like
    ELSE IF property_like.v
    THEN After(property_like,
               Ret(IF \E i \in 1..Len(processed_properties) :
                         processed_properties[i] = data_structure
                   THEN processed_properties
                   ELSE Append(processed_properties, data_structure)))
    ELSE After(property_like,
               ExtractEach(Values(data_structure.val),
                           processed_properties, tr))

\* lines 219-225, property_like being the outcome of the loop over the keys
Classified(data_structure, processed_properties, tr, property_like) ==
    IF property_like.exc THEN property_like
    ELSE IF property_like.v
    THEN After(property_like,
               Ret(Append(processed_properties, data_structure)))
    ELSE After(property_like,
               ExtractEach(Values(data_structure.val),
                           processed_properties, tr))

\* v is the list processed_properties after the call
extract_properties(data_structure, processed_properties, tr) ==
    CASE data_structure.kind = "dict" ->
            Classified(data_structure, processed_properties, tr,
                       ScanKeys(data_structure.val, tr))
      [] data_structure.kind = "list" ->
            ExtractEach(data_structure.val, processed_properties, tr)
      [] OTHER -> Ret(processed_properties)

----------------------------------------------------------------------------
(* generate_pdf.  A call returns [cities, cells, ecalls, tcalls, exc]: the  *)
(* cities index it rendered, the texts of the cells it wrote in order (the  *)
(* indent and bullet cells left out), the arguments of its calls of         *)
(* extract_properties, the texts submitted to the translation capability.   *)

\* repr(value) and str(value) as an f-string field renders them
RECURSIVE PyRepr(_)
RECURSIVE ReprItems(_)
RECURSIVE ReprEntries(_)
ReprItems(xs) ==
    IF xs = <<>> THEN ""
    ELSE IF Len(xs) = 1 THEN PyRepr(xs[1])
    ELSE PyRepr(xs[1]) \o ", " \o ReprItems(Tail(xs))

ReprEntries(es) ==
    IF es = <<>> THEN ""
    ELSE IF Len(es) = 1
    THEN PyRepr(Str(es[1][1])) \o ": " \o PyRepr(es[1][2])
    ELSE PyRepr(Str(es[1][1])) \o ": " \o PyRepr(es[1][2]) \o ", "
         \o ReprEntries(Tail(es))

PyRepr(value) ==
    CASE value.kind = "str"  -> "'" \o value.val \o "'"
      [] value.kind = "list" -> "[" \o ReprItems(value.val) \o "]"
      [] value.kind = "dict" -> "{" \o ReprEntries(value.val) \o "}"
      [] OTHER -> PyStr(value)

Format(value) ==
    IF value.kind \in {"list", "dict"} THEN PyRepr(value) ELSE PyStr(value)

\* hash(value) succeeds
Hashable(value) == value.kind \notin {"list", "dict"}

\* one turn of the loop below: k is translate_text(key.lower())
Matched(k, name, value, rest) ==
    IF k.exc THEN k
    ELSE IF k.v.val = name THEN [k EXCEPT !.v = value]
    ELSE After(k, rest)

\* the loop "for key, value in d.items(): if translate_text(key.lower()) ==
\* name: x = value; break" with x = None before it; v is x
RECURSIVE FindKey(_, _, _)
FindKey(entries, name, tr) ==
    IF entries = <<>> THEN Ret(None)
    ELSE Matched(translate_text(Str(Lower(entries[1][1])), tr), name,
                 entries[1][2], FindKey(Tail(entries), name, tr))

HasCity(cities, key) == \E i \in 1..Len(cities) : cities[i][1] = key

\* cities[key] for a key the index holds
CityGet(cities, key) ==
    cities[CHOOSE i \in 1..Len(cities) : cities[i][1] = key][2]

\* the scan taking only the entries whose value is a dict
RECURSIVE CityShapedDictOnly(_)
CityShapedDictOnly(entries) ==
    IF entries = <<>> THEN <<>>
    ELSE IF entries[1][2].kind = "dict"
    THEN <<<<Str(entries[1][1]), entries[1][2]>>>>
         \o CityShapedDictOnly(Tail(entries))
    ELSE CityShapedDictOnly(Tail(entries))

\* lines 250-253: the top-level entries whose value is a list or a dict
RECURSIVE CityShaped(_)
CityShaped(entries) ==
    IF entries = <<>> THEN <<>>
    ELSE IF entries[1][2].kind \in {"list", "dict"}
    THEN <<<<Str(entries[1][1]), entries[1][2]>>>> \o CityShaped(Tail(entries))
    ELSE CityShaped(Tail(entries))

\* lines 271-274: cities after prop went to the bucket of city
Bucketed(cities, city, prop) ==
    IF HasCity(cities, city)
    THEN DictSet(cities, city, List(Append(CityGet(cities, city).val, prop)))
    ELSE Append(cities, <<city, List(<<prop>>)>>)

\* lines 268-269
CityOrUnknown(city) == IF Truthy(city) THEN city ELSE Str("Unknown")

RECURSIVE GroupByCity(_, _, _)

\* lines 268-274, found being the outcome of the loop over prop.items();
\* "city not in cities" raises TypeError for a list or dict city
GroupOne(found, props, cities, tr) ==
    IF found.exc THEN found
    ELSE IF ~Hashable(CityOrUnknown(found.v)) THEN [found EXCEPT !.exc = TRUE]
    ELSE After(found,
               GroupByCity(Tail(props),
                   Bucketed(cities, CityOrUnknown(found.v), Head(props)), tr))

\* lines 261-274: group the extracted properties by city; v is cities
GroupByCity(props, cities, tr) ==
    IF props = <<>> THEN Ret(cities)
    ELSE GroupOne(FindKey(Head(props).val, "city", tr), props, cities, tr)

\* the outcome of a rendering step: cells written, translate calls, extract
\* calls, exception
Out(cells) == [cells |-> cells, tcalls |-> <<>>, ecalls |-> <<>>, exc |-> FALSE]

Seq2(a, b) ==
    IF a.exc THEN a
    ELSE [cells |-> a.cells \o b.cells, tcalls |-> a.tcalls \o b.tcalls,
          ecalls |-> a.ecalls \o b.ecalls, exc |-> b.exc]

\* the line of one field written whatever the key is
FieldLineAlways(k, key, value) ==
    [cells |-> IF ~k.exc THEN <<key \o ": " \o Format(value)>> ELSE <<>>,
     tcalls |-> k.tcalls, ecalls |-> <<>>, exc |-> k.exc]

\* lines 322-327: the line of one field, k being translate_text(key.lower())
FieldLine(k, key, value) ==
    [cells |-> IF ~k.exc /\ k.v.val # "district"
               THEN <<key \o ": " \o Format(value)>> ELSE <<>>,
     tcalls |-> k.tcalls, ecalls |-> <<>>, exc |-> k.exc]

\* lines 320-327: the detail lines of a dict property
RECURSIVE RenderFields(_, _)
RenderFields(entries, tr) ==
    IF entries = <<>> THEN Out(<<>>)
    ELSE Seq2(FieldLine(translate_text(Str(Lower(entries[1][1])), tr),
                        entries[1][1], entries[1][2]),
              RenderFields(Tail(entries), tr))

\* lines 313-317: the header of a property, found being the outcome of the
\* loop over its items
Header(found, idx) ==
    [cells |-> IF found.exc THEN <<>>
               ELSE <<IntToStr(idx) \o ". District: " \o
                      (IF Truthy(found.v) THEN Format(found.v)
                       ELSE "Property " \o IntToStr(idx))>>,
     tcalls |-> found.tcalls, ecalls |-> <<>>, exc |-> found.exc]

\* lines 305-336: the properties of one city, idx counting from 1
RECURSIVE RenderProperties(_, _, _)
RenderProperties(property_list, idx, tr) ==
    IF property_list = <<>> THEN Out(<<>>)
    ELSE Seq2(Seq2(Header(IF Head(property_list).kind = "dict"
                          THEN FindKey(Head(property_list).val, "district", tr)
                          ELSE Ret(None), idx),
                   IF Head(property_list).kind = "dict"
                   THEN RenderFields(Head(property_list).val, tr)
                   ELSE Out(<<"Value: " \o Format(Head(property_list))>>)),
              RenderProperties(Tail(property_list), idx + 1, tr))

\* lines 290-297: a dict of properties, extracted being the outcome of
\* extract_properties(properties)
ListedDict(properties, extracted, tr) ==
    Seq2([cells |-> <<>>, tcalls |-> extracted.tcalls,
          ecalls |-> <<properties>>, exc |-> extracted.exc],
         RenderProperties(IF extracted.v # <<>> THEN extracted.v
                          ELSE <<properties>>, 1, tr))

\* the properties of one city with a list put through extract_properties
\* as a dict is
RenderCityExtractingLists(properties, tr) ==
    CASE properties.kind \in {"dict", "list"} ->
            ListedDict(properties, extract_properties(properties, <<>>, tr), tr)
      [] OTHER ->
            RenderProperties(
                <<Dict(<<<<"Value", Str(PyStr(properties))>>>>)>>, 1, tr)

\* lines 287-336: the properties of one city
RenderCity(properties, tr) ==
    CASE properties.kind = "dict" ->
            ListedDict(properties, extract_properties(properties, <<>>, tr), tr)
      [] properties.kind = "list" -> RenderProperties(properties.val, 1, tr)
      [] OTHER ->
            RenderProperties(
                <<Dict(<<<<"Value", Str(PyStr(properties))>>>>)>>, 1, tr)

\* lines 281-336: the loop over cities.items()
RECURSIVE RenderCities(_, _)
RenderCities(cities, tr) ==
    IF cities = <<>> THEN Out(<<>>)
    ELSE Seq2(Seq2(Out(<<"City: " \o Format(cities[1][1])>>),
                   RenderCity(cities[1][2], tr)),
              RenderCities(Tail(cities), tr))

\* lines 277-278
OrProperties(cities, data) ==
    IF cities = <<>>
    THEN <<<<Str("Properties"),
             IF data.kind = "list" THEN data ELSE List(<<data>>)>>>>
    ELSE cities

\* lines 258-274, all_properties being the outcome of extract_properties
Grouped(all_properties, tr) ==
    IF all_properties.exc THEN all_properties
    ELSE After(all_properties, GroupByCity(all_properties.v, <<>>, tr))

\* lines 277-338, grouped being the outcome of lines 245-274 and ecalls the
\* calls of extract_properties made there
Rendered(data, grouped, ecalls, rendered) ==
    IF grouped.exc
    THEN [cities |-> <<>>, cells |-> <<>>, tcalls |-> grouped.tcalls,
          ecalls |-> ecalls, exc |-> TRUE]
    ELSE [cities |-> OrProperties(grouped.v, data), cells |-> rendered.cells,
          tcalls |-> grouped.tcalls \o rendered.tcalls,
          ecalls |-> ecalls \o rendered.ecalls, exc |-> rendered.exc]

\* lines 245-338, grouped as above
GroupedAndRendered(data, grouped, ecalls, tr) ==
    Rendered(data, grouped, ecalls,
             RenderCities(OrProperties(grouped.v, data), tr))

\* city_properties_format is set exactly when the scan of lines 250-253 put
\* an entry into cities
generate_pdf(data, tr) ==
    IF ~Truthy(data)
    THEN [cities |-> <<>>, cells |-> <<"No data available">>,
          tcalls |-> <<>>, ecalls |-> <<>>, exc |-> FALSE]
    ELSE IF data.kind = "dict" /\ CityShaped(data.val) # <<>>
    THEN GroupedAndRendered(data, Ret(CityShaped(data.val)), <<>>, tr)
    ELSE GroupedAndRendered(data,
            Grouped(extract_properties(data, <<>>, tr), tr), <<data>>, tr)

----------------------------------------------------------------------------
(* SpecNum: number_to_bulgarian_words applied to one argument              *)

\* every remainder 0..MaxLow is tried under each sampled upper group
MaxLow == 999

GroupSamples == {0, 1, 2, 10, 19, 21, 100, 101, 999}

LowSamples == (0..MaxLow) \cup {199, 200, 219, 220, 500, 900, 990, 999}

BelowBillion ==
    {m * 1000000 + t * 1000 + u :
        m \in GroupSamples, t \in GroupSamples, u \in LowSamples}

\* arguments of 10^9 and more, up to 10^12 and beyond
AboveBillion ==
    {[hi |-> h, lo |-> l] :
        h \in {1, 2, 21, 999, 1000, 1001, 2000, 1000000},
        l \in {0, 1, 1000, 3435, 999999999}}

NumInputs == {PyInt(k) : k \in BelowBillion} \cup AboveBillion

NoPdf == [cities |-> <<>>, cells |-> <<>>, tcalls |-> <<>>, ecalls |-> <<>>,
          exc |-> FALSE]

\* no connector is in use
DbIdle ==
    /\ connector = [cities |-> <<>>, props |-> <<>>, raises |-> {}]
    /\ fetched = [v |-> None, calls |-> <<>>, exc |-> FALSE]
    /\ dpc = "idle"

\* _run_full_process is not running
CliIdle ==
    /\ args = [skip_db_to_json |-> FALSE, skip_json_to_pdf |-> FALSE]
    /\ env = [config_write |-> "ok", save_raises |-> FALSE,
              pdf_raises |-> FALSE]
    /\ files = {}
    /\ steps = <<>>
    /\ cresult = -1
    /\ creturned = -1
    /\ cpc = "idle"

\* no string is being split
StrIdle ==
    /\ svalue = ""
    /\ sparts = [numeric |-> None, rest |-> Str("")]
    /\ sresult = Ret(None)
    /\ spc = "idle"

NumInit ==
    /\ StrIdle
    /\ DbIdle
    /\ CliIdle
    /\ number \in NumInputs
    /\ words = ""
    /\ npc = "call"
    /\ input_data = None
    /\ translator = [dict |-> <<>>, failing |-> {}, down |-> FALSE]
    /\ translated_data = Ret(None)
    /\ extract_result = Ret(<<>>)
    /\ pdf = NoPdf
    /\ pc = "idle"

NumberToWords ==
    /\ npc = "call"
    /\ words' = number_to_bulgarian_words(number)
    /\ npc' = "ret"
    /\ UNCHANGED number
    /\ UNCHANGED tvars
    /\ UNCHANGED svars
    /\ UNCHANGED dvars
    /\ UNCHANGED cvars

NumNext == NumberToWords

SpecNum == NumInit /\ [][NumNext]_vars

----------------------------------------------------------------------------
(* Spec: one run of main on a loaded tree, and extract_properties applied   *)
(* to the loaded tree                                                       *)

\* a transliterated Bulgarian-English dictionary; "rayon" and "kvartal"
\* share a translation
BgEn ==
    ("grad" :> "city") @@ ("kvartal" :> "district") @@
    ("rayon" :> "district") @@ ("tsena" :> "price") @@ ("plosht" :> "area") @@
    ("lv" :> "Levs") @@ ("Sofiya" :> "Sofia") @@ ("stai" :> "rooms")

NoDict == [w \in {} |-> ""]

Identity == [dict |-> NoDict, failing |-> {}, down |-> FALSE]

FailSets == {{}, {"kvartal"}, {"lv", "Sofiya"}, {"tsena", "Lozenets"}}

Translators ==
    {Identity, [dict |-> BgEn, failing |-> {}, down |-> TRUE]}
    \cup {[dict |-> BgEn, failing |-> f, down |-> FALSE] : f \in FailSets}

ListingA ==
    Dict(<< <<"district", Str("Dragalevtsi")>>, <<"price", Str("3435 leva")>> >>)
ListingB ==
    Dict(<< <<"kvartal", Str("Lozenets")>>, <<"tsena", Str("250000 lv")>>,
            <<"plosht", Num(85)>> >>)
ListingC ==
    Dict(<< <<"kvartal", Str("Center")>>, <<"rayon", Str("Sredets")>>,
            <<"grad", Str("Sofiya")>> >>)
ListingD ==
    Dict(<< <<"foo", Str("bar")>> >>)
ListingE ==
    Dict(<< <<"city", Str("Plovdiv")>>, <<"Price", Str("7 lv 8")>>,
            <<"note", Str("")>> >>)
ListingF ==
    Dict(<< <<"tsena", Str("1000000000000 leva")>>, <<"area2", Str(" 12 ")>>,
            <<"extra", None>> >>)
ListingG ==
    Dict(<< <<"info", Dict(<< <<"type", Str("ap")>>,
                              <<"rooms", List(<<Str("2 stai"), Num(3)>>)>> >>)>>,
            <<"tags", List(<<Str("a1"), Str("lev")>>)>> >>)

Listings ==
    {ListingA, ListingB, ListingC, ListingD, ListingE, ListingF, ListingG}

\* a city holds at most MaxListings listings
MaxListings == 2

ListingLists == UNION {[1..n -> Listings] : n \in 0..MaxListings}

Example == Dict(<< <<"Sofia", List(<<ListingA>>)>> >>)

OtherRoots ==
    { Str("abc"), Str("12 lv"), Str(""), Num(7), Num(0), None, Bool(TRUE),
      Dict(<<>>),
      Example,
      ListingD,
      Dict(<< <<"grad", Str("Sofiya")>>, <<"kvartal", Str("Lozenets")>>,
              <<"tsena", Str("250000 lv")>>, <<"plosht", Num(85)>>,
              <<"extra", None>> >>),
      Dict(<< <<"name", Str("imot")>>, <<"count", Num(3)>> >>),
      Dict(<< <<"Sofiya", List(<<ListingB>>)>>, <<"izvor", Str("imot 24")>>,
              <<"broi", Num(1)>> >>),
      Dict(<< <<"Sofiya", List(<<ListingB>>)>>, <<"Sofia", List(<<ListingA>>)>> >>),
      Dict(<< <<"Sofiya", ListingB>>, <<"2024", Dict(<< <<"center", List(<<ListingA, ListingD>>)>> >>)>> >>),
      Dict(<< <<"Sofiya", Dict(<< <<"a", Str("x")>> >>)>> >>),
      Dict(<< <<"blok 5", Str("nov")>>,
              <<"etazh 3", Dict(<< <<"2 stai", Str("da")>>,
                                   <<"7", List(<<Str("x")>>)>> >>)>> >>),
      List(<<Str("3 stai"), Num(5), None, List(<<Str("x"), Str("4 lv")>>)>>),
      List(<<Dict(<< <<"grad", List(<<Str("Sofiya")>>)>>, <<"tsena", Str("1 lv")>> >>)>>),
      List(<<List(<<ListingA, ListingC>>), Dict(<< <<"Varna", List(<<ListingE>>)>> >>)>>) }

Inputs ==
    {List(ls) : ls \in ListingLists}
    \cup {Dict(<< <<"Sofiya", List(ls)>> >>) : ls \in ListingLists}
    \cup OtherRoots

Init ==
    /\ StrIdle
    /\ DbIdle
    /\ CliIdle
    /\ input_data \in Inputs
    /\ translator \in Translators
    /\ translated_data = Ret(None)
    /\ extract_result = Ret(<<>>)
    /\ pdf = NoPdf
    /\ pc = "loaded"
    /\ number = PyInt(0)
    /\ words = ""
    /\ npc = "idle"

\* main, line 349
TranslateData ==
    /\ pc = "loaded"
    /\ translated_data' = translate_data(input_data, translator)
    /\ pc' = IF translated_data'.exc THEN "failed" ELSE "translated"
    /\ UNCHANGED <<input_data, translator, extract_result, pdf>>
    /\ UNCHANGED nvars
    /\ UNCHANGED svars
    /\ UNCHANGED dvars
    /\ UNCHANGED cvars

\* main, line 352
GeneratePdf ==
    /\ pc = "translated"
    /\ pdf' = generate_pdf(translated_data.v, translator)
    /\ pc' = IF pdf'.exc THEN "failed" ELSE "done"
    /\ UNCHANGED <<input_data, translator, translated_data, extract_result>>
    /\ UNCHANGED nvars
    /\ UNCHANGED svars
    /\ UNCHANGED dvars
    /\ UNCHANGED cvars

\* the tree after an extractor that stores each translated key back into
\* the dict it scans
RECURSIVE KeysWrittenBack(_, _)
KeysWrittenBack(value, tr) ==
    CASE value.kind = "dict" ->
            Dict([j \in 1..Len(value.val) |->
                    <<translate_text(Str(Lower(value.val[j][1])), tr).v.val,
                      KeysWrittenBack(value.val[j][2], tr)>>])
      [] value.kind = "list" ->
            List([i \in 1..Len(value.val) |->
                    KeysWrittenBack(value.val[i], tr)])
      [] OTHER -> value

\* extract_properties writing into the tree it walks
ExtractPropertiesInPlace ==
    /\ pc = "loaded"
    /\ extract_result' = extract_properties(input_data, <<>>, translator)
    /\ input_data' = KeysWrittenBack(input_data, translator)
    /\ pc' = "extracted"
    /\ UNCHANGED <<translator, translated_data, pdf>>
    /\ UNCHANGED nvars
    /\ UNCHANGED svars
    /\ UNCHANGED dvars
    /\ UNCHANGED cvars

\* extract_properties(data) on the loaded tree
ExtractProperties ==
    /\ pc = "loaded"
    /\ extract_result' = extract_properties(input_data, <<>>, translator)
    /\ pc' = "extracted"
    /\ UNCHANGED <<input_data, translator, translated_data, pdf>>
    /\ UNCHANGED nvars
    /\ UNCHANGED svars
    /\ UNCHANGED dvars
    /\ UNCHANGED cvars

Next == TranslateData \/ GeneratePdf \/ ExtractProperties

Spec == Init /\ [][Next]_vars

----------------------------------------------------------------------------
(* SpecStr: extract_numeric_part and process_property_item applied to one   *)
(* string value                                                             *)

\* the strings tried have at most MaxStrLen characters
MaxStrLen == 5

Alphabet == {"1", "0", " ", "a"}

RECURSIVE Strs(_)
Strs(n) ==
    IF n = 0 THEN {""}
    ELSE Strs(n - 1) \cup {s \o c : s \in Strs(n - 1), c \in Alphabet}

StrTranslators ==
    {Identity,
     [dict |-> ("a" :> "LEVA") @@ ("a a" :> "b") @@ ("k" :> "key"),
      failing |-> {"aa"}, down |-> FALSE]}

StrInit ==
    /\ DbIdle
    /\ CliIdle
    /\ svalue \in Strs(MaxStrLen)
    /\ translator \in StrTranslators
    /\ sparts = [numeric |-> None, rest |-> Str("")]
    /\ sresult = Ret(None)
    /\ spc = "call"
    /\ input_data = None
    /\ translated_data = Ret(None)
    /\ extract_result = Ret(<<>>)
    /\ pdf = NoPdf
    /\ pc = "idle"
    /\ number = PyInt(0)
    /\ words = ""
    /\ npc = "idle"

\* numeric_part, text_part = extract_numeric_part(value), line 58
ExtractNumericPart ==
    /\ spc = "call"
    /\ sparts' = extract_numeric_part(Str(svalue))
    /\ spc' = "split"
    /\ UNCHANGED <<svalue, sresult>>
    /\ UNCHANGED nvars
    /\ UNCHANGED tvars
    /\ UNCHANGED dvars
    /\ UNCHANGED cvars

\* process_property_item({"k": value})
ProcessValue ==
    /\ spc = "call"
    /\ sresult' = process_property_item(Dict(<< <<"k", Str(svalue)>> >>),
                                        translator)
    /\ spc' = "processed"
    /\ UNCHANGED <<svalue, sparts>>
    /\ UNCHANGED nvars
    /\ UNCHANGED tvars
    /\ UNCHANGED dvars
    /\ UNCHANGED cvars

StrNext == ExtractNumericPart \/ ProcessValue

SpecStr == StrInit /\ [][StrNext]_vars

----------------------------------------------------------------------------
(* db_to_json.fetch_and_format_data.  The connector is a capability: the    *)
(* cities get_cities returns, the property list of each city, and the set   *)
(* of its calls that raise.  A call of the function returns [v, calls,      *)
(* exc]: the value, the connector calls made, in order, and whether it      *)
(* ended by raising.                                                        *)

Call(op, arg) == <<op, arg>>

CityNames == {"Sofia", "Plovdiv"}

MaxCities == 3

CityLists == UNION {[1..n -> CityNames] : n \in 0..MaxCities}

PropertyLists == {List(<<>>), List(<<ListingB>>)}

ConnectorCalls ==
    {Call("connect", ""), Call("get_cities", ""), Call("close", "")}
    \cup {Call("get_properties_by_city", c) : c \in CityNames}

Connectors ==
    [cities : CityLists, props : [CityNames -> PropertyLists],
     raises : SUBSET ConnectorCalls]

\* result[city] = properties whatever properties is
StoreAlways(result, city, properties) == DictSet(result, city, properties)

\* lines 519-520
Store(result, city, properties) ==
    IF Truthy(properties) THEN DictSet(result, city, properties) ELSE result

\* lines 517-520: the loop over cities, acc being the outcome so far
RECURSIVE ForEachCity(_, _, _)
ForEachCity(cities, conn, acc) ==
    IF cities = <<>> THEN acc
    ELSE IF Call("get_properties_by_city", Head(cities)) \in conn.raises
    THEN [acc EXCEPT
            !.calls = Append(@, Call("get_properties_by_city", Head(cities))),
            !.exc = TRUE]
    ELSE ForEachCity(Tail(cities), conn,
            [acc EXCEPT
                !.calls = Append(@, Call("get_properties_by_city",
                                         Head(cities))),
                !.v = Store(@, Head(cities), conn.props[Head(cities)])])

\* lines 513-522: the body of the try statement, calls being the calls made
\* before it
Try(conn, calls) ==
    IF Call("get_cities", "") \in conn.raises
    THEN [v |-> <<>>, calls |-> Append(calls, Call("get_cities", "")),
          exc |-> TRUE]
    ELSE ForEachCity(conn.cities, conn,
            [v |-> <<>>, calls |-> Append(calls, Call("get_cities", "")),
             exc |-> FALSE])

\* close called on the path of the normal return only
CloseOnReturn(try, conn) ==
    IF try.exc THEN [try EXCEPT !.v = None]
    ELSE [v |-> IF Call("close", "") \in conn.raises THEN None
                ELSE Dict(try.v),
          calls |-> Append(try.calls, Call("close", "")),
          exc |-> Call("close", "") \in conn.raises]

\* lines 523-524: the finally clause, try being the outcome of the body
Finally(try, conn) ==
    [v |-> IF try.exc \/ Call("close", "") \in conn.raises THEN None
           ELSE Dict(try.v),
     calls |-> Append(try.calls, Call("close", "")),
     exc |-> try.exc \/ Call("close", "") \in conn.raises]

fetch_and_format_data(conn) ==
    IF Call("connect", "") \in conn.raises
    THEN [v |-> None, calls |-> <<Call("connect", "")>>, exc |-> TRUE]
    ELSE Finally(Try(conn, <<Call("connect", "")>>), conn)

DbInit ==
    /\ connector \in Connectors
    /\ fetched = [v |-> None, calls |-> <<>>, exc |-> FALSE]
    /\ dpc = "call"
    /\ CliIdle
    /\ StrIdle
    /\ input_data = None
    /\ translator = [dict |-> <<>>, failing |-> {}, down |-> FALSE]
    /\ translated_data = Ret(None)
    /\ extract_result = Ret(<<>>)
    /\ pdf = NoPdf
    /\ pc = "idle"
    /\ number = PyInt(0)
    /\ words = ""
    /\ npc = "idle"

\* data = fetch_and_format_data(connector)
FetchAndFormatData ==
    /\ dpc = "call"
    /\ fetched' = fetch_and_format_data(connector)
    /\ dpc' = IF fetched'.exc THEN "raised" ELSE "returned"
    /\ UNCHANGED connector
    /\ UNCHANGED cvars
    /\ UNCHANGED nvars
    /\ UNCHANGED tvars
    /\ UNCHANGED svars

DbNext == FetchAndFormatData

SpecDb == DbInit /\ [][DbNext]_vars

----------------------------------------------------------------------------
(* property_cli.PropertyCLI._run_full_process, step by step.  env says      *)
(* what the surroundings do in this run: whether writing the temporary      *)
(* config file succeeds, whether save_to_json raises, whether the PDF step  *)
(* raises.  steps is the record of the steps taken, each with its result.   *)

temp_config_file == "temp_db_config.json"

temp_json == "input.json"

Step(name, result) == [step |-> name, result |-> result]

ConfigWrites == {"ok", "open_raises", "dump_raises"}

Envs ==
    [config_write : ConfigWrites, save_raises : BOOLEAN,
     pdf_raises : BOOLEAN]

Args == [skip_db_to_json : BOOLEAN, skip_json_to_pdf : BOOLEAN]

CliConnectors ==
    {[cities |-> <<"Sofia", "Plovdiv">>,
      props |-> [c \in CityNames |-> List(<<ListingB>>)],
      raises |-> r] :
        r \in {{}, {Call("connect", "")},
               {Call("get_properties_by_city", "Plovdiv")}}}

\* lines 185-216: the code _run_db_to_json returns
_run_db_to_json(config, conn, surroundings, present) ==
    IF config \notin present THEN 1
    ELSE IF fetch_and_format_data(conn).exc THEN 1
    ELSE IF surroundings.save_raises THEN 1
    ELSE 0

\* lines 218-246: the code _run_generate_pdf returns
_run_generate_pdf(input, surroundings, present) ==
    IF input \notin present THEN 1
    ELSE IF surroundings.pdf_raises THEN 1
    ELSE 0

CliInit ==
    /\ args \in Args
    /\ env \in Envs
    /\ connector \in CliConnectors
    /\ files \in SUBSET {temp_config_file, temp_json}
    /\ steps = <<>>
    /\ cresult = -1
    /\ creturned = -1
    /\ cpc = "start"
    /\ fetched = [v |-> None, calls |-> <<>>, exc |-> FALSE]
    /\ dpc = "idle"
    /\ StrIdle
    /\ input_data = None
    /\ translator = [dict |-> <<>>, failing |-> {}, down |-> FALSE]
    /\ translated_data = Ret(None)
    /\ extract_result = Ret(<<>>)
    /\ pdf = NoPdf
    /\ pc = "idle"
    /\ number = PyInt(0)
    /\ words = ""
    /\ npc = "idle"

CliRest ==
    /\ UNCHANGED dvars
    /\ UNCHANGED nvars
    /\ UNCHANGED tvars
    /\ UNCHANGED svars

\* lines 254-262: the temporary config file is written; when open or
\* json.dump raises, lines 289-291 return 1
WriteTempConfig ==
    /\ cpc = "start"
    /\ ~args.skip_db_to_json
    /\ files' = IF env.config_write = "open_raises" THEN files
                ELSE files \cup {temp_config_file}
    /\ steps' = Append(steps, Step("open", IF env.config_write = "ok"
                                           THEN 0 ELSE 1))
    /\ creturned' = IF env.config_write = "ok" THEN creturned ELSE 1
    /\ cpc' = IF env.config_write = "ok" THEN "config_written" ELSE "returned"
    /\ UNCHANGED <<args, env, cresult>>
    /\ CliRest

\* lines 265-266
RunDbToJson ==
    /\ cpc = "config_written"
    /\ cresult' = _run_db_to_json(temp_config_file, connector, env, files)
    /\ files' = IF cresult' = 0 THEN files \cup {temp_json} ELSE files
    /\ steps' = Append(steps, Step("_run_db_to_json", cresult'))
    /\ cpc' = "db_returned"
    /\ UNCHANGED <<args, env, creturned>>
    /\ CliRest

\* the failure of the database step returned before the clean-up
RemoveTempConfigOnSuccess ==
    /\ cpc = "db_returned"
    /\ files' = IF cresult # 0 THEN files ELSE files \ {temp_config_file}
    /\ steps' = IF cresult # 0 THEN steps
                ELSE Append(steps, Step("os.remove", 0))
    /\ creturned' = IF cresult # 0 THEN cresult ELSE creturned
    /\ cpc' = IF cresult # 0 THEN "returned" ELSE "json_ready"
    /\ UNCHANGED <<args, env, cresult>>
    /\ CliRest

\* lines 269-273
RemoveTempConfig ==
    /\ cpc = "db_returned"
    /\ files' = files \ {temp_config_file}
    /\ steps' = Append(steps, Step("os.remove", 0))
    /\ creturned' = IF cresult # 0 THEN cresult ELSE creturned
    /\ cpc' = IF cresult # 0 THEN "returned" ELSE "json_ready"
    /\ UNCHANGED <<args, env, cresult>>
    /\ CliRest

\* line 254, the test false
SkipDbToJson ==
    /\ cpc = "start"
    /\ args.skip_db_to_json
    /\ cpc' = "json_ready"
    /\ UNCHANGED <<args, env, files, steps, cresult, creturned>>
    /\ CliRest

\* lines 276-278
SkipJsonToPdf ==
    /\ cpc = "json_ready"
    /\ args.skip_json_to_pdf
    /\ creturned' = 0
    /\ cpc' = "returned"
    /\ UNCHANGED <<args, env, files, steps, cresult>>
    /\ CliRest

\* lines 282-288
RunGeneratePdf ==
    /\ cpc = "json_ready"
    /\ ~args.skip_json_to_pdf
    /\ cresult' = _run_generate_pdf(temp_json, env, files)
    /\ steps' = Append(steps, Step("_run_generate_pdf", cresult'))
    /\ creturned' = cresult'
    /\ cpc' = "returned"
    /\ UNCHANGED <<args, env, files>>
    /\ CliRest

CliNext ==
    \/ WriteTempConfig
    \/ RunDbToJson
    \/ RemoveTempConfig
    \/ SkipDbToJson
    \/ SkipJsonToPdf
    \/ RunGeneratePdf

SpecCli == CliInit /\ [][CliNext]_vars

----------------------------------------------------------------------------
(* A words-to-number oracle for the decomposer's output below 10^9         *)

\* str.split(sep) for a one-character sep
RECURSIVE Split(_, _)
Split(s, sep) ==
    LET i == Find(s, sep)
    IN  IF i = 0 THEN <<s>>
        ELSE <<SubSeq(s, 1, i - 1)>> \o Split(SubSeq(s, i + 1, Len(s)), sep)

OracleValue ==
    ("edno" :> 1) @@ ("dve" :> 2) @@ ("tri" :> 3) @@ ("chetiri" :> 4) @@
    ("pet" :> 5) @@ ("shest" :> 6) @@ ("sedem" :> 7) @@ ("osem" :> 8) @@
    ("devet" :> 9) @@ ("deset" :> 10) @@ ("edinadeset" :> 11) @@
    ("dvanadeset" :> 12) @@ ("trinadeset" :> 13) @@
    ("chetirinadeset" :> 14) @@ ("petnadeset" :> 15) @@
    ("shestnadeset" :> 16) @@ ("sedemnadeset" :> 17) @@
    ("osemnadeset" :> 18) @@ ("devetnadeset" :> 19) @@ ("dvadeset" :> 20) @@
    ("trideset" :> 30) @@ ("chetirideset" :> 40) @@ ("petdeset" :> 50) @@
    ("shestdeset" :> 60) @@ ("sedemdeset" :> 70) @@ ("osemdeset" :> 80) @@
    ("devetdeset" :> 90) @@ ("sto" :> 100) @@ ("dvesta" :> 200) @@
    ("trista" :> 300) @@ ("chetiristotin" :> 400) @@ ("petstotin" :> 500) @@
    ("sheststotin" :> 600) @@ ("sedemstotin" :> 700) @@
    ("osemstotin" :> 800) @@ ("devetstotin" :> 900) @@ ("edin" :> 1)

\* reads the tokens left to right; total holds the closed groups, cur the
\* open one; -1 when a token is unknown or a group name has no quantity
RECURSIVE OracleParse(_, _, _)
OracleParse(tokens, total, cur) ==
    IF tokens = <<>> THEN total + cur
    ELSE LET t == Head(tokens)
             rest == Tail(tokens)
         IN  IF t \in DOMAIN OracleValue
                 THEN OracleParse(rest, total, cur + OracleValue[t])
             ELSE IF t = "i" /\ cur > 0 /\ rest # <<>>
                 THEN OracleParse(rest, total, cur)
             ELSE IF t = "hilyada" /\ cur = 0
                 THEN OracleParse(rest, total + 1000, 0)
             ELSE IF t = "hilyadi" /\ cur > 1
                 THEN OracleParse(rest, total + cur * 1000, 0)
             ELSE IF t = "milion" /\ cur = 1
                 THEN OracleParse(rest, total + 1000000, 0)
             ELSE IF t = "miliona" /\ cur > 1
                 THEN OracleParse(rest, total + cur * 1000000, 0)
             ELSE -1

WordsToNumber(s) ==
    IF s = "nula" THEN 0
    ELSE IF s = "" THEN -1
    ELSE OracleParse(Split(s, " "), 0, 0)

----------------------------------------------------------------------------
(* Vocabulary of the properties                                            *)

HasDigit(s) == \E i \in 1..Len(s) : IsDigit(Char(s, i))

IsContainer(value) == value.kind \in {"dict", "list"}

\* what translate_text returns for the text under the run's translator
T(text) == translate_text(Str(text), translator).v.val

\* the value a dict holds under key
DictGet(entries, key) ==
    entries[CHOOSE i \in 1..Len(entries) : entries[i][1] = key][2]

HasKey(entries, key) == \E i \in 1..Len(entries) : entries[i][1] = key

\* entry j is the last entry of the source dict with its translated key
LastWriter(entries, j) ==
    \A k \in (j + 1)..Len(entries) : T(entries[k][1]) # T(entries[j][1])

\* container kind, cardinality and order of a tree, scalar content ignored
RECURSIVE Shape(_)
Shape(value) ==
    CASE value.kind = "dict" ->
            [kind |-> "dict",
             parts |-> [i \in 1..Len(value.val) |-> Shape(value.val[i][2])]]
      [] value.kind = "list" ->
            [kind |-> "list",
             parts |-> [i \in 1..Len(value.val) |-> Shape(value.val[i])]]
      [] OTHER -> [kind |-> "scalar", parts |-> <<>>]

\* the expected result of a scalar, per property and position: ctx is "top"
\* for a direct value of the root dict, "value" for a value of any other
\* dict, "elem" for an element of a list
DigitRun(s) == extract_numeric_part(Str(s)).numeric.val
Remainder(s) == extract_numeric_part(Str(s)).rest.val
Canonical(t) == IF Contains(Lower(t), "lev") THEN "leva" ELSE t

Leaf(claim, ctx, in, out) ==
    CASE claim = "C7" ->
            (ctx = "value" /\ in.kind = "str" /\ HasDigit(in.val)) =>
                out = Str(number_to_bulgarian_words(ParseInt(DigitRun(in.val)))
                          \o " " \o Canonical(T(Remainder(in.val))))
      [] claim = "C8" ->
            (in.kind = "str" /\ ~HasDigit(in.val)) => out = Str(T(in.val))
      [] claim = "C9" ->
            (ctx = "value" /\ in.kind = "str" /\ HasDigit(in.val)
                /\ ParseInt(DigitRun(in.val)).hi >= 1000) =>
                out = Str(T(in.val))
      [] claim = "C16" ->
            (in.kind = "str" /\ HasDigit(in.val)) =>
                out = Str(number_to_bulgarian_words(ParseInt(DigitRun(in.val)))
                          \o " " \o Canonical(T(Remainder(in.val))))
      [] claim = "C17" ->
            in.kind # "str" => out = Str(PyStr(in))

\* the source tree and the translated tree walked together: each scalar of
\* the source meets the scalar that took its place (in a dict, the entry
\* under its translated key, for the entries not overwritten later)
RECURSIVE Walk(_, _, _, _)
Walk(claim, in, out, top) ==
    CASE in.kind = "dict" ->
            /\ out.kind = "dict"
            /\ \A j \in 1..Len(in.val) :
                  LastWriter(in.val, j) =>
                    /\ HasKey(out.val, T(in.val[j][1]))
                    /\ IF IsContainer(in.val[j][2])
                       THEN Walk(claim, in.val[j][2],
                                 DictGet(out.val, T(in.val[j][1])), FALSE)
                       ELSE Leaf(claim, IF top THEN "top" ELSE "value",
                                 in.val[j][2],
                                 DictGet(out.val, T(in.val[j][1])))
      [] in.kind = "list" ->
            /\ out.kind = "list"
            /\ Len(out.val) = Len(in.val)
            /\ \A i \in 1..Len(in.val) :
                  IF IsContainer(in.val[i])
                  THEN Walk(claim, in.val[i], out.val[i], FALSE)
                  ELSE Leaf(claim, "elem", in.val[i], out.val[i])
      [] OTHER -> TRUE

\* translate_data has returned for a root it walks
Walked ==
    /\ pc \in {"translated", "done", "failed"}
    /\ ~translated_data.exc
    /\ IsContainer(input_data) /\ Truthy(input_data)

\* the string values found anywhere in a tree that hold a digit
RECURSIVE DigitStrings(_)
DigitStrings(value) ==
    CASE value.kind = "dict" ->
            IF value.val = <<>> THEN 0
            ELSE DigitStrings(value.val[1][2])
                 + DigitStrings(Dict(Tail(value.val)))
      [] value.kind = "list" ->
            IF value.val = <<>> THEN 0
            ELSE DigitStrings(value.val[1]) + DigitStrings(List(Tail(value.val)))
      [] value.kind = "str" -> IF HasDigit(value.val) THEN 1 ELSE 0
      [] OTHER -> 0

\* C1: translate_data preserves the shape of every input tree: a Mapping
\* becomes a Mapping with as many entries in the same order, a Sequence a
\* Sequence of the same length and order, at every depth and at the root.
C1_ShapePreserved ==
    (pc \in {"translated", "done", "failed"} /\ IsContainer(input_data)) =>
        Shape(translated_data.v) = Shape(input_data)

\* C2: for every 0 <= n < 10^9 the returned word string reads back as n
\* under the words-to-number oracle (so no two such n share a word string).
C2_RoundTrip ==
    (npc = "ret" /\ number.hi = 0) => WordsToNumber(words) = number.lo

C2_Witness ==
    /\ npc = "ret"
    /\ number = PyInt(1001021)
    /\ words = "edin milion hilyada dvadeset i edno"

\* C3: the words at the magnitude boundaries: 0 is the zero token alone, 20
\* the tens token alone, 21 tens token + conjunction + unit token, 100 the
\* hundreds token alone, 101 hundreds token + unit token with no
\* conjunction, 1000 the irregular one-thousand form.
C3_Boundaries ==
    npc = "ret" =>
        /\ number = PyInt(0) => words = "nula"
        /\ number = PyInt(20) => words = "dvadeset"
        /\ number = PyInt(21) => words = "dvadeset i edno"
        /\ number = PyInt(100) => words = "sto"
        /\ number = PyInt(101) => words = "sto edno"
        /\ number = PyInt(1000) => words = "hilyada"

C3_Witness ==
    /\ npc = "ret"
    /\ number = PyInt(1000)
    /\ words = "hilyada"

\* C4: with an identity translation capability the example tree
\* {"Sofia": [{"district": "Dragalevtsi", "price": "3435 leva"}]} comes back
\* with the same shape and order, district unchanged and price the words
\* for 3435, one space, "leva"; generate_pdf takes it as city-shaped and
\* makes no call of extract_properties.
C4_EndToEnd ==
    (input_data = Example /\ translator = Identity) =>
        /\ pc \in {"translated", "done"} =>
              translated_data.v =
                 Dict(<< <<"Sofia", List(<<
                    Dict(<< <<"district", Str("Dragalevtsi")>>,
                            <<"price",
                              Str(number_to_bulgarian_words(PyInt(3435))
                                  \o " leva")>> >>) >>)>> >>)
        /\ pc # "failed"
        /\ pc = "done" =>
              /\ pdf.ecalls = <<>>
              /\ pdf.cities = << <<Str("Sofia"), translated_data.v.val[1][2]>> >>

C4_Witness ==
    /\ pc = "done"
    /\ input_data = Example
    /\ translator = Identity
    /\ DictGet(translated_data.v.val[1][2].val[1].val, "price")
          = Str("tri hilyadi chetiristotin trideset i pet leva")

\* C5: with an identity translation capability, translating the translated
\* tree again changes nothing.
C5_Idempotent ==
    (pc = "translated" /\ translator = Identity) =>
        translate_data(translated_data.v, Identity).v = translated_data.v

\* a reached Mapping is listing-like when one of its keys, lower-cased and
\* translated, is a marker
IsListingLike(m) == \E j \in 1..Len(m.val) : T(Lower(m.val[j][1])) \in Markers

\* the Mappings the extractor reaches: the root, the elements of reached
\* Sequences, the values of reached Mappings that are not listing-like
RECURSIVE Reached(_)
Reached(value) ==
    CASE value.kind = "dict" ->
            {value} \cup
            (IF IsListingLike(value) THEN {}
             ELSE UNION {Reached(value.val[j][2]) : j \in 1..Len(value.val)})
      [] value.kind = "list" ->
            UNION {Reached(value.val[i]) : i \in 1..Len(value.val)}
      [] OTHER -> {}

Emitted == {extract_result.v[i] : i \in 1..Len(extract_result.v)}

\* C6: extract_properties emits a reached Mapping exactly when one of its
\* keys, lower-cased then translated, is district, type, area or price;
\* for {"foo": "bar"} the result is empty.
C6_ListingLike ==
    pc = "extracted" =>
        /\ \A m \in Reached(input_data) : IsListingLike(m) <=> m \in Emitted
        /\ \A m \in Emitted : m \in Reached(input_data)
        /\ input_data = ListingD => extract_result.v = <<>>

C6_Witness ==
    /\ pc = "extracted"
    /\ input_data = Dict(<< <<"Sofiya", List(<<ListingD, ListingE>>)>> >>)
    /\ extract_result.v = <<ListingE>>

\* C7: a string value of a Mapping that holds a digit run becomes the
\* numeral words, one space, and the translated remainder, the remainder
\* being "leva" whenever its translation holds "lev" in any letter case.
C7_Reconstructed ==
    Walked => Walk("C7", input_data, translated_data.v, TRUE)

C7_Witness ==
    /\ pc = "translated"
    /\ input_data = List(<<ListingB>>)
    /\ translator = [dict |-> BgEn, failing |-> {}, down |-> FALSE]
    /\ DictGet(translated_data.v.val[1].val, "price")
          = Str("dvesta petdeset hilyadi leva")

\* C8: a string value without a digit is returned as translate_text of the
\* whole string, and number_to_bulgarian_words is not invoked for it: it is
\* invoked at most once per string value holding a digit.
C8_NoDigitNoDecomposer ==
    Walked =>
        /\ Walk("C8", input_data, translated_data.v, TRUE)
        /\ Len(translated_data.ncalls) <= DigitStrings(input_data)

C8_Witness ==
    /\ pc = "translated"
    /\ input_data = List(<<ListingD>>)
    /\ translated_data.v = List(<<ListingD>>)
    /\ translated_data.tcalls = <<"foo", "bar">>
    /\ translated_data.ncalls = <<>>

\* C9: a string value whose digit run is 10^12 or more gets no numeral
\* words: the result is the translation of the original string as a whole.
C9_OutOfRangeFallsBack ==
    Walked => Walk("C9", input_data, translated_data.v, TRUE)

\* the capability that echoes the text wherever tr raises
Substituted(tr) ==
    [dict |-> IF tr.down THEN NoDict
              ELSE [w \in (DOMAIN tr.dict) \ tr.failing |-> tr.dict[w]],
     failing |-> {}, down |-> FALSE]

\* C10: when the translation capability raises for a text, translate_text
\* substitutes the text itself and the walk goes on: translate_data does
\* not abort, submits the same texts and returns what it returns under a
\* capability that echoes those texts instead of raising.
C10_FailureSubstitutes ==
    /\ pc = "loaded" \/ pc = "extracted" \/ ~translated_data.exc
    /\ pc \in {"translated", "done", "failed"} =>
          /\ translated_data.v
                = translate_data(input_data, Substituted(translator)).v
          /\ translated_data.tcalls
                = translate_data(input_data, Substituted(translator)).tcalls

C10_Witness ==
    /\ pc = "translated"
    /\ translator.failing = {"kvartal"}
    /\ input_data = List(<<ListingB>>)
    /\ HasKey(translated_data.v.val[1].val, "kvartal")
    /\ HasKey(translated_data.v.val[1].val, "price")

\* the keys of a dict, in order
Keys(entries) == [i \in 1..Len(entries) |-> entries[i][1]]

TranslatedKeys(entries) == [i \in 1..Len(entries) |-> T(entries[i][1])]

AddNew(r, x) ==
    IF \E i \in 1..Len(r) : r[i] = x THEN r ELSE Append(r, x)

\* a sequence without its repetitions, each item where it came first
RECURSIVE FirstSeen(_)
FirstSeen(s) ==
    IF s = <<>> THEN <<>>
    ELSE AddNew(FirstSeen(SubSeq(s, 1, Len(s) - 1)), s[Len(s)])

\* at every depth the keys of the translated dict are the translations of
\* the source keys
RECURSIVE KeysTranslated(_, _)
KeysTranslated(in, out) ==
    CASE in.kind = "dict" ->
            /\ out.kind = "dict"
            /\ Keys(out.val) = FirstSeen(TranslatedKeys(in.val))
            /\ \A j \in 1..Len(in.val) :
                  (LastWriter(in.val, j) /\ IsContainer(in.val[j][2])) =>
                      KeysTranslated(in.val[j][2],
                                     DictGet(out.val, T(in.val[j][1])))
      [] in.kind = "list" ->
            /\ out.kind = "list"
            /\ Len(out.val) = Len(in.val)
            /\ \A i \in 1..Len(in.val) :
                  IsContainer(in.val[i]) =>
                      KeysTranslated(in.val[i], out.val[i])
      [] OTHER -> TRUE

\* the digit runs of the string scalars of a tree, as integers
RECURSIVE ValueRuns(_)
ValueRuns(value) ==
    CASE value.kind = "dict" ->
            UNION {ValueRuns(value.val[j][2]) : j \in 1..Len(value.val)}
      [] value.kind = "list" ->
            UNION {ValueRuns(value.val[i]) : i \in 1..Len(value.val)}
      [] value.kind = "str" ->
            IF HasDigit(value.val) THEN {ParseInt(DigitRun(value.val))}
            ELSE {}
      [] OTHER -> {}

\* C11: keys are never numeral-classified: at the top level and at every
\* depth the keys of the output are translate_text of the source keys, and
\* number_to_bulgarian_words is invoked only with the digit run of a
\* string value, never for a key that holds a digit run.
C11_KeysOnlyTranslated ==
    Walked =>
        /\ KeysTranslated(input_data, translated_data.v)
        /\ \A i \in 1..Len(translated_data.ncalls) :
              translated_data.ncalls[i] \in ValueRuns(input_data)

C11_Witness ==
    /\ pc = "translated"
    /\ input_data.kind = "dict"
    /\ HasKey(input_data.val, "blok 5")
    /\ translator = [dict |-> BgEn, failing |-> {}, down |-> FALSE]
    /\ Keys(translated_data.v.val) = <<"blok 5", "etazh 3">>
    /\ Keys(translated_data.v.val[2][2].val) = <<"2 stai", "7">>
    /\ translated_data.ncalls = <<>>

\* the normalized value of a scalar taken alone: as the value of the only
\* entry of the root dict (top) or of a nested dict
NormalizedAlone(value, top) ==
    IF top
    THEN translate_data(Dict(<< <<"k", value>> >>), translator).v.val[1][2]
    ELSE process_property_item(Dict(<< <<"k", value>> >>),
                               translator).v.val[1][2]

\* the entries of a dict under a key
Under(entries, key) == {i \in 1..Len(entries) : entries[i][1] = key}

\* in every dict of the tree each translated key has one entry, holding
\* the normalized value of the last source entry with that translated key
RECURSIVE LastWriteWins(_, _, _)
LastWriteWins(in, out, top) ==
    CASE in.kind = "dict" ->
            /\ out.kind = "dict"
            /\ \A j \in 1..Len(in.val) :
                  /\ Cardinality(Under(out.val, T(in.val[j][1]))) = 1
                  /\ LastWriter(in.val, j) =>
                        IF IsContainer(in.val[j][2])
                        THEN LastWriteWins(in.val[j][2],
                                 DictGet(out.val, T(in.val[j][1])), FALSE)
                        ELSE DictGet(out.val, T(in.val[j][1]))
                                = NormalizedAlone(in.val[j][2], top)
      [] in.kind = "list" ->
            /\ out.kind = "list"
            /\ Len(out.val) = Len(in.val)
            /\ \A i \in 1..Len(in.val) :
                  IsContainer(in.val[i]) =>
                      LastWriteWins(in.val[i], out.val[i], FALSE)
      [] OTHER -> TRUE

\* C12: key collisions are last-write-wins: when two source keys of one
\* Mapping translate to the same key, the output Mapping holds one entry
\* under that key, its value is the normalized value of the later source
\* entry, and no error is raised.
C12_LastWriteWins ==
    /\ pc \in {"translated", "done", "failed"} => ~translated_data.exc
    /\ Walked => LastWriteWins(input_data, translated_data.v, TRUE)

C12_Witness ==
    /\ pc = "translated"
    /\ input_data = List(<<ListingC>>)
    /\ translator = [dict |-> BgEn, failing |-> {}, down |-> FALSE]
    /\ translated_data.v =
          List(<<Dict(<< <<"district", Str("Sredets")>>,
                         <<"city", Str("Sofia")>> >>)>>)

\* a tree of dicts with pairwise distinct keys, lists and scalars
RECURSIVE WellFormed(_)
WellFormed(value) ==
    CASE value.kind = "dict" ->
            /\ \A i, j \in 1..Len(value.val) :
                  value.val[i][1] = value.val[j][1] => i = j
            /\ \A j \in 1..Len(value.val) : WellFormed(value.val[j][2])
      [] value.kind = "list" ->
            \A i \in 1..Len(value.val) : WellFormed(value.val[i])
      [] OTHER -> value.kind \in {"str", "int", "none", "bool"}

\* C13: normalization is total: for every input tree and every behaviour
\* of the translation capability, raising included, translate_data returns
\* without raising, and what it returns is a well-formed tree whose root
\* is a Mapping or a Sequence.
C13_Total ==
    /\ ~translated_data.exc
    /\ pc \in {"translated", "done", "failed"} =>
          /\ IsContainer(translated_data.v)
          /\ WellFormed(translated_data.v)

C13_Witness ==
    /\ pc = "translated"
    /\ translator.down
    /\ input_data = List(<<ListingG, ListingF>>)
    /\ ~translated_data.exc
    /\ Len(translated_data.tcalls) > 0
    /\ Shape(translated_data.v) = Shape(input_data)

\* C14: when the root is neither a Mapping nor a Sequence (a string, a
\* number, a boolean or null) translate_data returns an empty structure
\* and raises no error.
C14_ScalarRootEmpty ==
    (pc \in {"translated", "done", "failed"} /\ ~IsContainer(input_data)) =>
        /\ ~translated_data.exc
        /\ translated_data.v = Dict(<<>>)

C14_Witness ==
    /\ pc = "translated"
    /\ input_data = Str("12 lv")
    /\ translated_data.v = Dict(<<>>)
    /\ translated_data.tcalls = <<>>

C16_EveryStringReconstructed ==
    Walked => Walk("C16", input_data, translated_data.v, TRUE)

\* the keys and the string scalars of a tree, counted
RECURSIVE Texts(_)
Texts(value) ==
    CASE value.kind = "dict" ->
            IF value.val = <<>> THEN 0
            ELSE 1 + Texts(value.val[1][2]) + Texts(Dict(Tail(value.val)))
      [] value.kind = "list" ->
            IF value.val = <<>> THEN 0
            ELSE Texts(value.val[1]) + Texts(List(Tail(value.val)))
      [] value.kind = "str" -> 1
      [] OTHER -> 0

\* C17: a scalar that is not a string (a number, null, a boolean) comes
\* out as its text representation and is never passed to the translation
\* capability, as a value of a nested Mapping, as an element of a Sequence
\* and as a direct value of the top-level Mapping: the capability is
\* called at most once per key and per string scalar.
C17_NonStringsStringified ==
    Walked =>
        /\ Walk("C17", input_data, translated_data.v, TRUE)
        /\ Len(translated_data.tcalls) <= Texts(input_data)

\* generate_pdf has run on a non-empty translated tree that is not
\* city-shaped: the extracted Mappings were grouped by city
GroupingRun ==
    /\ pc \in {"done", "failed"}
    /\ ~translated_data.exc
    /\ Truthy(translated_data.v)
    /\ translated_data.v.kind = "dict" =>
          CityShaped(translated_data.v.val) = <<>>

\* the Mappings extracted from the translated tree, in extraction order
Extracted == extract_properties(translated_data.v, <<>>, translator).v

\* the value of the first key of a Mapping whose lower-cased translation
\* is "city", or the sentinel
CityOf(m) ==
    IF \E j \in 1..Len(m.val) : T(Lower(m.val[j][1])) = "city"
    THEN m.val[CHOOSE j \in 1..Len(m.val) :
                  /\ T(Lower(m.val[j][1])) = "city"
                  /\ \A k \in 1..(j - 1) : T(Lower(m.val[k][1])) # "city"][2]
    ELSE Str("Unknown")

CitiesOf(records) == FirstSeen([i \in 1..Len(records) |-> CityOf(records[i])])

\* the records of one city, in extraction order
RECURSIVE InCity(_, _)
InCity(records, city) ==
    IF records = <<>> THEN <<>>
    ELSE IF CityOf(Head(records)) = city
    THEN <<Head(records)>> \o InCity(Tail(records), city)
    ELSE InCity(Tail(records), city)

\* buckets in first-seen order, each with its records in extraction order
Buckets(records) ==
    [b \in 1..Len(CitiesOf(records)) |->
        <<CitiesOf(records)[b], List(InCity(records, CitiesOf(records)[b]))>>]

\* C18: grouping by city in generate_pdf: each extracted Mapping goes to
\* the bucket keyed by the value of its first key whose lower-cased
\* translation is "city", or to the bucket "Unknown" when it has no such
\* key; buckets are in first-seen order, the records of a bucket in
\* extraction order, each record in exactly one bucket exactly once.
C18_GroupedByCity ==
    (GroupingRun /\ Extracted # <<>>) =>
        /\ ~pdf.exc
        /\ pdf.cities = Buckets(Extracted)

\* generate_pdf has run on the translated tree
Generated == pc \in {"done", "failed"} /\ ~translated_data.exc

\* the direct values of the root Mapping (none for a Sequence root)
TopValues(value) == IF value.kind = "dict" THEN Values(value.val) ELSE <<>>

AllTopScalar(value) ==
    \A j \in 1..Len(TopValues(value)) : ~IsContainer(TopValues(value)[j])

\* the top-level values that are Mappings, in order
RECURSIVE Mappings(_)
Mappings(values) ==
    IF values = <<>> THEN <<>>
    ELSE IF Head(values).kind = "dict"
    THEN <<Head(values)>> \o Mappings(Tail(values))
    ELSE Mappings(Tail(values))

\* C19 as stated: generate_pdf calls extract_properties only if every
\* top-level value of the translated tree is a scalar, and never when some
\* top-level value is a Sequence or Mapping.
C19_OnlyWhenAllScalar ==
    (Generated /\ pdf.ecalls # <<>>) => AllTopScalar(translated_data.v)

\* C19 as amended: generate_pdf calls extract_properties on the translated
\* tree as a whole only if no top-level value is a Sequence or Mapping, and
\* then makes no other call; when some top-level value is a Sequence or
\* Mapping it calls extract_properties only on top-level values that are
\* Mappings, never on the whole tree and never on a Sequence, and once on
\* each such Mapping, in order, when it returns.
C19_ExtractorCalls ==
    Generated =>
        /\ \A i \in 1..Len(pdf.ecalls) :
              IF AllTopScalar(translated_data.v)
              THEN pdf.ecalls = <<translated_data.v>>
              ELSE /\ pdf.ecalls[i].kind = "dict"
                   /\ \E j \in 1..Len(TopValues(translated_data.v)) :
                         TopValues(translated_data.v)[j] = pdf.ecalls[i]
                   /\ Len(pdf.ecalls)
                         <= Len(Mappings(TopValues(translated_data.v)))
        /\ (pc = "done" /\ ~AllTopScalar(translated_data.v)) =>
              pdf.ecalls = Mappings(TopValues(translated_data.v))
        /\ (pc = "done" /\ AllTopScalar(translated_data.v)
                /\ Truthy(translated_data.v)) =>
              pdf.ecalls = <<translated_data.v>>

C19_Witness ==
    /\ pc = "done"
    /\ input_data.kind = "dict"
    /\ HasKey(input_data.val, "2024")
    /\ Len(pdf.ecalls) = 2
    /\ pdf.ecalls[1] = translated_data.v.val[1][2]
    /\ pdf.ecalls[2] = translated_data.v.val[2][2]
    /\ pdf.ecalls[1].kind = "dict"

\* what a magnitude group of quotient q emits
Group(q, one, many) ==
    IF q = 0 THEN <<>>
    ELSE IF q = 1 THEN <<one>>
    ELSE <<number_to_bulgarian_words(PyInt(q)) \o " " \o many>>

\* what the 0-999 remainder emits
Rest(r) == IF r = 0 THEN <<>> ELSE <<number_to_bulgarian_words(PyInt(r))>>

\* C20: number_to_bulgarian_words strips the groups billions, millions,
\* thousands and the 0-999 remainder in this order; a group of quotient 0
\* emits nothing, of quotient 1 its single-unit form ("edin miliard",
\* "edin milion", "hilyada"), of quotient q > 1 the words of q followed by
\* the plural group name ("miliarda", "miliona", "hilyadi"); what is
\* emitted is joined by single spaces in descending magnitude order.
C20_GroupsInOrder ==
    (npc = "ret" /\ number # PyInt(0)) =>
        words = Join(Group(number.hi, "edin miliard", "miliarda")
                     \o Group(number.lo \div 1000000, "edin milion", "miliona")
                     \o Group((number.lo % 1000000) \div 1000,
                              "hilyada", "hilyadi")
                     \o Rest(number.lo % 1000), " ")

C20_Witness ==
    /\ npc = "ret"
    /\ number = [hi |-> 21, lo |-> 1000]
    /\ words = "dvadeset i edno miliarda hilyada"

\* the words claimed for a remainder r in 1..999: the stem of a nonzero
\* hundreds digit, then the table word of r mod 100 in 1..19, or the decade
\* word alone, or decade, conjunction, unit
RemainderWords(r) ==
    Join((IF r \div 100 > 0 THEN <<_hundreds[r \div 100]>> ELSE <<>>)
         \o (IF r % 100 = 0 THEN <<>>
             ELSE IF r % 100 < 20 THEN <<_bgd[r % 100]>>
             ELSE IF r % 10 = 0 THEN <<_bgd[(r % 100) - (r % 10)]>>
             ELSE <<_bgd[(r % 100) - (r % 10)] \o " i " \o _bgd[r % 10]>>),
         " ")

\* s ends with the word sequence t
EndsWithWords(s, t) ==
    /\ Len(s) >= Len(t)
    /\ SubSeq(s, Len(s) - Len(t) + 1, Len(s)) = t
    /\ Len(s) > Len(t) => Char(s, Len(s) - Len(t)) = " "

HasToken(s, t) == \E i \in 1..Len(Split(s, " ")) : Split(s, " ")[i] = t

\* C21: for every remainder r in 1..999 the table lookups are exhaustive
\* and nothing is dropped: the returned words end with the hundreds stem
\* of a nonzero hundreds digit and the words of r mod 100 (the table word
\* for 1..19, the decade alone for a zero unit, "decade i unit"
\* otherwise); below 1000 the conjunction "i" appears exactly when the
\* tens digit is at least 2 and the unit is not 0; the result is never
\* empty.
C21_TablesExhaustive ==
    npc = "ret" =>
        /\ words # ""
        /\ number.lo % 1000 > 0 =>
              EndsWithWords(words, RemainderWords(number.lo % 1000))
        /\ (number.hi = 0 /\ number.lo < 1000) =>
              (HasToken(words, "i")
                  <=> (number.lo % 100 >= 20 /\ number.lo % 10 # 0))

C21_Witness ==
    /\ npc = "ret"
    /\ number = PyInt(2019)
    /\ words = "dve hilyadi devetnadeset"

\* where the first maximal run of digits of s starts and ends
FirstRunStart(s) ==
    CHOOSE p \in 1..Len(s) :
        IsDigit(Char(s, p)) /\ \A q \in 1..(p - 1) : ~IsDigit(Char(s, q))

FirstRunEnd(s) ==
    CHOOSE e \in FirstRunStart(s)..Len(s) :
        /\ \A q \in FirstRunStart(s)..e : IsDigit(Char(s, q))
        /\ e = Len(s) \/ ~IsDigit(Char(s, e + 1))

FirstRun(s) == SubSeq(s, FirstRunStart(s), FirstRunEnd(s))

\* s with its first run cut out where it stands
Cut(s) ==
    SubSeq(s, 1, FirstRunStart(s) - 1) \o SubSeq(s, FirstRunEnd(s) + 1, Len(s))

\* r is u without the whitespace around it
Trimmed(u, r) ==
    /\ r # "" => ~IsSpace(Char(r, 1)) /\ ~IsSpace(Char(r, Len(r)))
    /\ \E i \in 0..Len(u) :
          /\ Len(u) >= i + Len(r)
          /\ SubSeq(u, i + 1, i + Len(r)) = r
          /\ \A q \in 1..i : IsSpace(Char(u, q))
          /\ \A q \in (i + Len(r) + 1)..Len(u) : IsSpace(Char(u, q))

\* C22: extract_numeric_part returns the first maximal run of decimal
\* digits and, as remainder, the string with that run removed where it was
\* matched, whitespace around it trimmed; a string is reconstructed at most
\* once, a later digit run staying in the remainder as digits.
C22_FirstRunRemoved ==
    /\ (spc = "split" /\ HasDigit(svalue)) =>
          /\ sparts.numeric = Str(FirstRun(svalue))
          /\ sparts.rest.kind = "str"
          /\ Trimmed(Cut(svalue), sparts.rest.val)
    /\ (spc = "split" /\ ~HasDigit(svalue)) =>
          sparts = [numeric |-> None, rest |-> Str(svalue)]
    /\ (spc = "processed" /\ HasDigit(svalue)) =>
          /\ sresult.ncalls = <<ParseInt(FirstRun(svalue))>>
          /\ sresult.v.val[1][2] =
                Str(number_to_bulgarian_words(ParseInt(FirstRun(svalue)))
                    \o " " \o Canonical(T(Strip(Cut(svalue)))))

C22_Witness ==
    /\ spc = "processed"
    /\ svalue = "1 a 1"
    /\ translator = Identity
    /\ sresult.v = Dict(<< <<"k", Str("edno a 1")>> >>)

\* the Mappings a depth-first walk emits, in the order it meets them: a
\* listing-like Mapping itself, without a look inside; for any other
\* Mapping what its values emit, in key order; for a Sequence what its
\* elements emit, in order
RECURSIVE WalkOrder(_)
RECURSIVE WalkEach(_)
WalkEach(items) ==
    IF items = <<>> THEN <<>>
    ELSE WalkOrder(Head(items)) \o WalkEach(Tail(items))

WalkOrder(value) ==
    CASE value.kind = "dict" ->
            IF IsListingLike(value) THEN <<value>>
            ELSE WalkEach(Values(value.val))
      [] value.kind = "list" -> WalkEach(value.val)
      [] OTHER -> <<>>

\* C23: extract_properties is a depth-first, order-preserving walk: a
\* listing-like Mapping is appended as it is and not recursed into, any
\* other Mapping is recursed into value by value in key order, a Sequence
\* element by element; the result lists the emitted Mappings in the order
\* the walk meets them, a Mapping met twice being emitted twice.
C23_DepthFirstOrder ==
    pc = "extracted" =>
        /\ ~extract_result.exc
        /\ extract_result.v = WalkOrder(input_data)

C23_Witness ==
    /\ pc = "extracted"
    /\ input_data = Dict(<< <<"Sofiya", List(<<ListingA, ListingA>>)>> >>)
    /\ extract_result.v = <<ListingA, ListingA>>

\* a Mapping root whose every direct value is a Sequence or a Mapping
CityTree(value) ==
    /\ value.kind = "dict"
    /\ value.val # <<>>
    /\ \A j \in 1..Len(value.val) : IsContainer(value.val[j][2])

IsDistrict(key) == T(Lower(key)) = "district"

\* "field: value" for the fields of a listing that are not its district,
\* in key order
RECURSIVE FieldLines(_)
FieldLines(entries) ==
    IF entries = <<>> THEN <<>>
    ELSE IF IsDistrict(entries[1][1]) THEN FieldLines(Tail(entries))
    ELSE <<entries[1][1] \o ": " \o Format(entries[1][2])>>
         \o FieldLines(Tail(entries))

\* the value of the first district field, when the listing has one that is
\* not empty
DistrictOf(listing, idx) ==
    IF listing.kind = "dict"
       /\ \E j \in 1..Len(listing.val) :
             /\ IsDistrict(listing.val[j][1])
             /\ \A k \in 1..(j - 1) : ~IsDistrict(listing.val[k][1])
             /\ Truthy(listing.val[j][2])
    THEN Format(listing.val[CHOOSE j \in 1..Len(listing.val) :
                    /\ IsDistrict(listing.val[j][1])
                    /\ \A k \in 1..(j - 1) :
                          ~IsDistrict(listing.val[k][1])][2])
    ELSE "Property " \o IntToStr(idx)

\* the numbered entries of the listings of a city, from number idx on
RECURSIVE EntryLines(_, _)
EntryLines(listings, idx) ==
    IF listings = <<>> THEN <<>>
    ELSE <<IntToStr(idx) \o ". District: " \o DistrictOf(Head(listings), idx)>>
         \o (IF Head(listings).kind = "dict"
             THEN FieldLines(Head(listings).val)
             ELSE <<"Value: " \o Format(Head(listings))>>)
         \o EntryLines(Tail(listings), idx + 1)

\* the listings of a city: the elements of a Sequence; for a Mapping the
\* listings extracted from it, or the Mapping itself when there is none
ListingsOf(value) ==
    IF value.kind = "list" THEN value.val
    ELSE IF WalkOrder(value) # <<>> THEN WalkOrder(value)
    ELSE <<value>>

RECURSIVE CityLines(_)
CityLines(entries) ==
    IF entries = <<>> THEN <<>>
    ELSE <<"City: " \o entries[1][1]>>
         \o EntryLines(ListingsOf(entries[1][2]), 1)
         \o CityLines(Tail(entries))

\* C24: rendering order in generate_pdf: for a city-shaped tree one city
\* header per top-level label in key order, under it one numbered entry per
\* listing in list order, under each entry one "field: value" line per
\* field in the listing's key order, leaving out only the fields whose
\* lower-cased translated key is "district", the value of which is the
\* entry header.
C24_RenderingOrder ==
    (pc \in {"done", "failed"} /\ ~translated_data.exc
        /\ CityTree(translated_data.v)) =>
        /\ pc = "done"
        /\ pdf.cells = CityLines(translated_data.v.val)

C24_Witness ==
    /\ pc = "done"
    /\ translator = [dict |-> BgEn, failing |-> {}, down |-> FALSE]
    /\ input_data = Dict(<< <<"Sofiya", List(<<ListingB, ListingD>>)>> >>)
    /\ pdf.cells = <<"City: Sofia",
                     "1. District: Lozenets",
                     "price: dvesta petdeset hilyadi leva",
                     "area: 85",
                     "2. District: Property 2",
                     "foo: bar">>

\* C25: during one translate_data pass no text is submitted to the
\* translation capability more than once, also when the same key or value
\* text occurs in several listings and on the numeric fallback path.
C25_OncePerText ==
    pc \in {"translated", "done", "failed"} =>
        \A i, j \in 1..Len(translated_data.tcalls) :
            translated_data.tcalls[i] = translated_data.tcalls[j] => i = j

\* the labels of the cities index generate_pdf renders
CityLabels == {pdf.cities[i][1] : i \in 1..Len(pdf.cities)}

\* a Mapping root with a container-valued and a scalar-valued entry
Mixed(value) ==
    /\ value.kind = "dict"
    /\ \E j \in 1..Len(value.val) : IsContainer(value.val[j][2])
    /\ \E j \in 1..Len(value.val) : ~IsContainer(value.val[j][2])

\* C26: no top-level entry is lost between normalization and rendering:
\* when the translated root Mapping mixes container-valued and
\* scalar-valued entries, every top-level entry, each scalar-valued one
\* included, is represented in the cities index generate_pdf renders.
C26_NoEntryLost ==
    (pc = "done" /\ Mixed(translated_data.v)) =>
        \A j \in 1..Len(translated_data.v.val) :
            Str(translated_data.v.val[j][1]) \in CityLabels

\* C27: translate_data returns an empty Mapping for every falsy root, so the
\* empty Sequence root [] gives {} and not an empty Sequence, while every
\* non-empty Sequence root gives a Sequence of the same length.
C27_FalsyRootEmptyMapping ==
    pc \in {"translated", "done", "failed"} =>
        /\ ~Truthy(input_data) =>
              ~translated_data.exc /\ translated_data.v = Dict(<<>>)
        /\ (input_data.kind = "list" /\ input_data.val # <<>>) =>
              /\ ~translated_data.exc
              /\ translated_data.v.kind = "list"
              /\ Len(translated_data.v.val) = Len(input_data.val)

C27_Witness ==
    /\ pc = "translated"
    /\ input_data = List(<<>>)
    /\ translated_data.v = Dict(<<>>)

\* s is a non-empty run of digits with nothing but whitespace around it
DigitsOnly(s) ==
    /\ Strip(s) # ""
    /\ \A i \in 1..Len(Strip(s)) : IsDigit(Char(Strip(s), i))

\* C28: when a string value of a Mapping is a digit run alone, whitespace
\* around it allowed, process_property_item takes the numeral path: the
\* result is the numeral words followed by exactly one space, and the
\* translation capability is not called for the empty remainder.
C28_DigitsOnlyValue ==
    (spc = "processed" /\ DigitsOnly(svalue)) =>
        /\ ~sresult.exc
        /\ sresult.v = Dict(<< <<T("k"),
                Str(number_to_bulgarian_words(ParseInt(Strip(svalue)))
                    \o " ")>> >>)
        /\ number_to_bulgarian_words(ParseInt(Strip(svalue))) # ""
        /\ ~IsSpace(Char(number_to_bulgarian_words(ParseInt(Strip(svalue))),
                Len(number_to_bulgarian_words(ParseInt(Strip(svalue))))))
        /\ sresult.ncalls = <<ParseInt(Strip(svalue))>>
        /\ sresult.tcalls = <<"k">>

C28_Witness ==
    /\ spc = "processed"
    /\ svalue = " 110 "
    /\ translator = Identity
    /\ sresult.v = Dict(<< <<"k", Str("sto deset ")>> >>)
    /\ sresult.tcalls = <<"k">>

\* the positions of the call in the connector calls made
Positions(call) ==
    {i \in 1..Len(fetched.calls) : fetched.calls[i] = call}

IsQuery(call) == call[1] \in {"get_cities", "get_properties_by_city"}

\* the cities of the list with a non-empty property list, each once, in
\* the order of the list, with their property lists
RECURSIVE NonEmptyCities(_, _, _)
NonEmptyCities(cities, props, seen) ==
    IF cities = <<>> THEN <<>>
    ELSE IF Head(cities) \in seen \/ props[Head(cities)].val = <<>>
    THEN NonEmptyCities(Tail(cities), props, seen)
    ELSE << <<Head(cities), props[Head(cities)]>> >>
         \o NonEmptyCities(Tail(cities), props, seen \cup {Head(cities)})

\* C29: connector lifecycle in fetch_and_format_data: connect is called
\* before any query; once connect has returned, close is called exactly
\* once on every path, the normal return and an exception raised while
\* fetching cities or properties; close is never called when connect
\* raises; the mapping returned holds exactly the cities whose property
\* list is not empty, in the order get_cities returned them.
C29_ConnectorLifecycle ==
    dpc \in {"returned", "raised"} =>
        /\ Positions(Call("connect", "")) = {1}
        /\ \A i \in 1..Len(fetched.calls) :
              IsQuery(fetched.calls[i]) => i > 1
        /\ Call("connect", "") \notin connector.raises =>
              Positions(Call("close", "")) = {Len(fetched.calls)}
        /\ Call("connect", "") \in connector.raises =>
              /\ Positions(Call("close", "")) = {}
              /\ dpc = "raised"
        /\ dpc = "returned" =>
              fetched.v = Dict(NonEmptyCities(connector.cities,
                                              connector.props, {}))

C29_Witness ==
    /\ dpc = "raised"
    /\ connector = [cities |-> <<"Sofia", "Plovdiv">>,
                    props |-> [c \in CityNames |-> List(<<ListingB>>)],
                    raises |-> {Call("get_properties_by_city", "Plovdiv")}]
    /\ fetched.calls = <<Call("connect", ""), Call("get_cities", ""),
                         Call("get_properties_by_city", "Sofia"),
                         Call("get_properties_by_city", "Plovdiv"),
                         Call("close", "")>>

\* the positions in steps of the step of that name
StepsOf(name) == {i \in 1..Len(steps) : steps[i].step = name}

\* the database step has run and returned 0
DbStepSucceeded ==
    \E i \in StepsOf("_run_db_to_json") : steps[i].result = 0

\* the database step has run and returned another code
DbStepFailed ==
    \E i \in StepsOf("_run_db_to_json") : steps[i].result # 0

\* C30: pipeline sequencing in _run_full_process: the JSON-to-PDF step runs
\* only after the database-to-JSON step returned 0 or was skipped by
\* --skip-db-to-json; when the database step fails its non-zero code is
\* returned and the PDF step never runs; with --skip-json-to-pdf the PDF
\* step never runs and 0 is returned (the database step having returned 0
\* or been skipped, its failure being the case before); the temporary
\* config file written for the database step is removed before
\* the method returns, whether that step succeeded or failed.
C30_PipelineSequencing ==
    /\ \A j \in StepsOf("_run_generate_pdf") :
          \/ args.skip_db_to_json /\ StepsOf("_run_db_to_json") = {}
          \/ \E i \in StepsOf("_run_db_to_json") :
                i < j /\ steps[i].result = 0
    /\ DbStepFailed => StepsOf("_run_generate_pdf") = {}
    /\ (cpc = "returned" /\ DbStepFailed) =>
          /\ creturned # 0
          /\ \E i \in StepsOf("_run_db_to_json") :
                steps[i].result = creturned
    /\ args.skip_json_to_pdf => StepsOf("_run_generate_pdf") = {}
    /\ (cpc = "returned" /\ args.skip_json_to_pdf
            /\ (args.skip_db_to_json \/ DbStepSucceeded)) => creturned = 0
    /\ (cpc = "returned" /\ StepsOf("_run_db_to_json") # {}) =>
          temp_config_file \notin files

C30_Witness ==
    /\ cpc = "returned"
    /\ args = [skip_db_to_json |-> FALSE, skip_json_to_pdf |-> FALSE]
    /\ steps = <<Step("open", 0), Step("_run_db_to_json", 1),
                 Step("os.remove", 0)>>
    /\ creturned = 1
    /\ temp_config_file \notin files

====
